---- MODULE Spec2Model ----
(***************************************************************************)
(* A model of the katalyst-core CPU resource advisor: the provision        *)
(* assembler (provisionassembler.ProvisionAssemblerCommon), the advisor    *)
(* tick (cpuResourceAdvisor.update) and the async worker pool.             *)
(*                                                                         *)
(* CPU quantities that the code holds as float64 (pod requests, control    *)
(* knob values, quotas) are kept in half-CPU units, so that math.Ceil and  *)
(* the int() truncation of the code are real conversions.  Pool sizes are  *)
(* whole CPUs, as in the code.                                             *)
(***************************************************************************)
EXTENDS Integers, Sequences, FiniteSets, TLC

VARIABLES
    \* ---- assembler harness: one AssembleProvision call on drawn inputs
    asmIn,          \* the assembler's inputs (regionMap, numaAvailable, ...)
    asmOrder,       \* the order in which `range *pa.regionMap` visits the regions
    asmOut,         \* what AssembleProvision returned
    asmDone,        \* the call has returned
    \* ---- the meta-cache and the configuration
    containers,     \* metaCache containers: pod UID -> [isolated]
    reservePoolExists, \* metaCache.GetPoolInfo(reserve) finds the pool
    conf,           \* dynamic configuration and cgroup mode
    \* ---- cpuResourceAdvisor
    regionMap,      \* cra.regionMap
    numaAvailable,  \* cra.numaAvailable
    nonBindingNumas, \* cra.nonBindingNumas
    advisorUpdated, \* cra.advisorUpdated
    mutex,          \* cra.mutex: [writer, readers]
    pc,             \* where the tick of UpdateAndGetAdvice stands
    pass,           \* calls of updateWithIsolationGuardian in this update
    tryIsolation,   \* the argument of the running updateWithIsolationGuardian
    isolationExists, \* what setIsolatedContainers returned in this pass
    passErrs,       \* the errors the passes of this update returned, in order
    result,         \* the result and error UpdateAndGetAdvice returned last
    healthzCheckMap, \* general.healthzCheckMap
    readerPc,       \* where a GetHeadroom call stands
    atLock,         \* the advisor state when the running update took the lock
    prevOk,         \* the update before this one returned no error
    ticks,          \* the updates started so far
    \* ---- AsyncWorkers
    workStatuses,   \* work name -> [working, work]
    lastUndeliveredWork, \* work name -> the pending work, or NoWork
    submitted,      \* the works handed to AddWork so far, in order
    executed,       \* the works whose Fn has been run, in order
    finished,       \* the works whose Fn has returned
    \* ---- health check registry
    now,            \* the clock read by time.Now()
    registry,       \* check name -> healthzCheckStatus
    results,        \* what GetRegisterReadinessCheckResult returned last
    hzHist,         \* check name -> what was done to the check so far
    \* ---- PolicyNUMAAware
    memIn,          \* what the metaserver, the metacache and the configuration hold
    pna,            \* the PolicyNUMAAware object
    memOut,         \* what GetHeadroom returned last
    memHist,        \* the last Update: its fault, its error, the headroom before it
    \* ---- MemoryPluginCheckpoint
    cp,             \* the checkpoint that is marshalled
    blob,           \* the bytes MarshalCheckpoint returned, as they are stored
    altered,        \* the stored bytes were changed after marshalling
    restored,       \* the checkpoint the stored bytes were unmarshalled into
    verified,       \* what VerifyChecksum returned for the restored checkpoint
    blob2,          \* the bytes MarshalCheckpoint returned for the restored checkpoint
    \* ---- cpuResourceAdvisor: containers, pools and regions by name
    rgConf,         \* conf: [enableShareCoresNumaBinding]
    rgContainers,   \* metaCache containers: pod UID -> ContainerInfo
    rgPools,        \* metaCache pool entries: pool name -> RegionNames
    rgRegionMap,    \* cra.regionMap: region name -> region
    rgSeq,          \* the region names generated so far
    rgTicks,        \* the passes of updateWithIsolationGuardian so far
    rgEvents,       \* the changes the pod watcher has made so far
    rgLast,         \* the last pass: its error, what assignToRegions returned
    \* ---- ProvisionAssemblerCommon, second implementation
    secondOut,      \* what its AssembleProvision returned
    secondDone,     \* its AssembleProvision has been called
    \* ---- DynamicPolicy.checkCPUSet
    csEntries,      \* p.state pod entries: pod UID -> allocation info of its container
    csHealth,       \* the state of the CheckCPUSet health check
    csLast,         \* the last run: visiting order, lookups, actual cpusets
    csRuns,         \* the runs of checkCPUSet so far
    \* ---- DynamicPolicy.clearResidualState
    crConf,         \* [enableCPUAdvisor]
    crEntries,      \* p.state pod entries: UID -> [pool]
    residualHitMap, \* p.residualHitMap
    crWatcher,      \* the pods the pod watcher lists
    crAbsent,       \* pod UID -> listed runs in a row that did not find the pod
    crHealth,       \* the state of the ClearResidualState health check
    crLast,         \* the last run: what it listed, its candidates, what it removed
    crRuns,         \* the runs of clearResidualState so far
    \* ---- cpuResourceAdvisor: history of the ticks
    tickSucceeded,  \* an update has returned a result and no error
    \* ---- cacheReaper
    rpContainers,   \* the reclaimed-cores main containers of the meta-cache
    containersToReapCache, \* cp.containersToReapCache: key -> container
    rpMutex,        \* cp.mutex: [writer, readers]
    rpPc,           \* where the Reconcile call stands
    rpCall,         \* the running or last Reconcile: status, selection, local map
    rpPrev,         \* cp.containersToReapCache before the last Reconcile stored its map
    rpReaderPc,     \* where the GetAdvices call stands
    rpAdvices,      \* what GetAdvices returned last
    rpReconciles    \* the Reconcile calls started so far

asmVars == <<asmIn, asmOrder, asmOut, asmDone>>
metaVars == <<containers, reservePoolExists, conf>>
craVars == <<regionMap, numaAvailable, nonBindingNumas, advisorUpdated>>
tickVars == <<pc, pass, tryIsolation, isolationExists, passErrs, result>>
advVars == <<metaVars, craVars, tickVars, mutex, healthzCheckMap, readerPc, atLock, prevOk, ticks>>
aswVars == <<workStatuses, lastUndeliveredWork, submitted, executed, finished>>
hzVars == <<now, registry, results, hzHist>>
memVars == <<memIn, pna, memOut, memHist>>
ckVars == <<cp, blob, altered, restored, verified, blob2>>
rgVars == <<rgConf, rgContainers, rgPools, rgRegionMap, rgSeq, rgTicks, rgEvents, rgLast>>
secondVars == <<secondOut, secondDone>>
csVars == <<csEntries, csHealth, csLast, csRuns>>
crVars == <<crConf, crEntries, residualHitMap, crWatcher, crAbsent, crHealth, crLast, crRuns>>
tkVars == <<tickSucceeded>>
rpVars == <<rpContainers, containersToReapCache, rpMutex, rpPc, rpCall, rpPrev, rpReaderPc,
            rpAdvices, rpReconciles>>
moreVars == <<secondVars, csVars, crVars, tkVars, rpVars>>
extVars == <<ckVars, rgVars, moreVars>>
vars == <<asmVars, advVars, aswVars, hzVars, memVars, extVars>>

-----------------------------------------------------------------------------
(* Machine and configuration                                               *)

\* CPUs of one NUMA node (metaServer.CPUsPerNuma)
CPUsPerNuma == 6
\* size of the reserve pool in the meta-cache
ReservePoolSize == 2
\* reservedForReclaim of one NUMA node when it is configured
ReclaimReserve == 2

Numas == {0, 1}
FakedNUMAID == -1

PoolNameReserve == "reserve"
PoolNameReclaim == "reclaim"

Share == "share"
Isolation == "isolation"
DedicatedNumaExclusive == "dedicated-numa-exclusive"

\* a quota of -1 (no quota), in half-CPU units
NoQuota == 0 - 2

-----------------------------------------------------------------------------
(* general helpers                                                         *)

Max(a, b) == IF a >= b THEN a ELSE b
Min(a, b) == IF a <= b THEN a ELSE b

\* math.Ceil of a value held in half-CPUs, as whole CPUs
CeilCPU(h) == (h + 1) \div 2
\* int(v) of a non-negative value held in half-CPUs: truncation
IntCPU(h) == h \div 2

EmptyMap == [x \in {} |-> 0]

Put(f, k, v) == [x \in DOMAIN f \cup {k} |-> IF x = k THEN v ELSE f[x]]

Merge(f, g) == [x \in DOMAIN f \cup DOMAIN g |-> IF x \in DOMAIN g THEN g[x] ELSE f[x]]

RECURSIVE SumUpMapValues(_)
SumUpMapValues(m) ==
    IF DOMAIN m = {} THEN 0
    ELSE LET k == CHOOSE x \in DOMAIN m : TRUE
         IN  m[k] + SumUpMapValues([x \in DOMAIN m \ {k} |-> m[x]])

\* sum of a per-NUMA resource over a set of NUMAs
getNUMAsResource(resources, numas) ==
    SumUpMapValues([n \in numas \cap DOMAIN resources |-> resources[n]])

\* a fixed total order on pool and region names (Go sorts them as strings)
NameOrder == <<"batch", "batch-n0", "iso-a", "iso-b", "iso-n0", "share", "share-n0">>
Rank(name) == CHOOSE i \in 1..Len(NameOrder) : NameOrder[i] = name

-----------------------------------------------------------------------------
(* Pool-size regulators                                                    *)

RECURSIVE GiveResidual(_, _, _, _)
\* the residual carry of a proportional split: one more CPU to each of the
\* `left` pools with the largest remainders
GiveResidual(sizes, rem, left, todo) ==
    IF left <= 0 \/ todo = {} THEN sizes
    ELSE LET p == CHOOSE x \in todo : \A y \in todo :
                      \/ rem[x] > rem[y]
                      \/ rem[x] = rem[y] /\ Rank(x) <= Rank(y)
         IN  GiveResidual([sizes EXCEPT ![p] = @ + 1], rem, left - 1, todo \ {p})

RECURSIVE TakeExcess(_, _)
\* the floor of one CPU per pool may overshoot the target: take the excess
\* back from the largest pools, never below one CPU
TakeExcess(sizes, excess) ==
    IF excess <= 0 \/ \A p \in DOMAIN sizes : sizes[p] <= 1 THEN sizes
    ELSE LET p == CHOOSE x \in DOMAIN sizes : \A y \in DOMAIN sizes :
                      \/ sizes[x] > sizes[y]
                      \/ sizes[x] = sizes[y] /\ Rank(x) <= Rank(y)
         IN  TakeExcess([sizes EXCEPT ![p] = @ - 1], excess - 1)

\* scale the pools proportionally so that they sum to targetSum, every pool
\* keeping at least one CPU
normalizePoolSizes(poolSizes, targetSum) ==
    LET sum    == SumUpMapValues(poolSizes)
        target == Max(targetSum, 0)
        base   == [p \in DOMAIN poolSizes |->
                      IF sum <= 0 THEN 1 ELSE Max(1, (poolSizes[p] * target) \div sum)]
        rem    == [p \in DOMAIN poolSizes |->
                      IF sum <= 0 THEN 0 ELSE (poolSizes[p] * target) % sum]
        diff   == target - SumUpMapValues(base)
    IN  IF DOMAIN poolSizes = {} \/ sum = targetSum THEN poolSizes
        ELSE IF diff >= 0 THEN GiveResidual(base, rem, diff, DOMAIN poolSizes)
        ELSE TakeExcess(base, 0 - diff)

\* regulatePoolSizes(sharePoolSizes, isolationPoolSizes, available, allowExpand):
\* the sizes of the share and isolation pools and whether the share pools
\* had to be shrunk
regulatePoolSizes(requirements, isolation, available, allowExpand) ==
    LET shareSum  == SumUpMapValues(requirements)
        isoSum    == SumUpMapValues(isolation)
        fits      == shareSum + isoSum <= available
        targetSum == IF fits /\ ~allowExpand THEN shareSum ELSE available - isoSum
    IN  [sizes     |-> Merge(normalizePoolSizes(requirements, targetSum), isolation),
         throttled |-> shareSum > available - isoSum]

\* regulateOverlapReclaimPoolSize(sharePoolSizes, target): the part of each
\* share pool that the reclaim pool overlaps, proportional to the pool's size
regulateOverlapReclaimPoolSize(sharePoolSizes, target) ==
    LET sum == SumUpMapValues(sharePoolSizes)
    IN  IF sum <= 0 \/ target > sum
        THEN [err |-> TRUE, sizes |-> EmptyMap]
        ELSE [err |-> FALSE, sizes |-> normalizePoolSizes(sharePoolSizes, target)]

-----------------------------------------------------------------------------
(* ProvisionAssemblerCommon                                                *)
(*                                                                         *)
(* pa is the assembler with what its pointers lead to:                     *)
(*   regionMap           region name -> region                             *)
(*   reservedForReclaim  NUMA -> CPUs                                      *)
(*   numaAvailable       NUMA -> CPUs                                      *)
(*   nonBindingNumas     set of NUMAs                                      *)
(*   allowOverlap        *allowSharedCoresOverlapReclaimedCores            *)
(*   enableReclaim       conf.GetDynamicConfiguration().EnableReclaim      *)
(*   cgroup2             cgroups.IsCgroup2UnifiedMode()                    *)
(*   reservePoolSize     metaReader.GetPoolSize(reserve)                   *)
(* A region is a record                                                    *)
(*   name, type, numaBinding, numas (GetBindingNumas), pool                *)
(*   (OwnerPoolName), request (GetPodsRequest, half-CPUs), knob            *)
(*   (GetProvision: nonReclaim, upper, lower, hasQuota, quota, all in      *)
(*   half-CPUs), provErr (GetProvision fails), enableReclaim.              *)
(* st is the calculation result under construction, with the four maps     *)
(* that AssembleProvision collects for the non-binding regions and the     *)
(* SetThrottled calls made so far.                                         *)

\* InternalCPUCalculationResult.SetPoolEntry
SetPoolEntry(st, poolName, numaID, size, quota) ==
    [st EXCEPT !.entries = Put(@, <<poolName, numaID>>, [size |-> size, quota |-> quota])]

\* InternalCPUCalculationResult.SetPoolOverlapInfo
SetPoolOverlapInfo(st, poolName, numaID, overlapPoolName, size) ==
    [st EXCEPT !.overlap = Put(@, <<poolName, numaID, overlapPoolName>>, size)]

RECURSIVE SetPoolEntries(_, _, _)
\* for poolName, size := range poolSizes { result.SetPoolEntry(poolName, numaID, size, -1) }
SetPoolEntries(st, poolSizes, numaID) ==
    IF DOMAIN poolSizes = {} THEN st
    ELSE LET p == CHOOSE x \in DOMAIN poolSizes : TRUE
         IN  SetPoolEntries(SetPoolEntry(st, p, numaID, poolSizes[p], NoQuota),
                            [x \in DOMAIN poolSizes \ {p} |-> poolSizes[x]], numaID)

RECURSIVE SetPoolOverlaps(_, _, _)
SetPoolOverlaps(st, sizes, numaID) ==
    IF DOMAIN sizes = {} THEN st
    ELSE LET p == CHOOSE x \in DOMAIN sizes : TRUE
         IN  SetPoolOverlaps(SetPoolOverlapInfo(st, PoolNameReclaim, numaID, p, sizes[p]),
                             [x \in DOMAIN sizes \ {p} |-> sizes[x]], numaID)

\* region.SetThrottled
SetThrottled(st, regionName, throttled) ==
    [st EXCEPT !.throttled = Put(@, regionName, throttled)]

\* RegionMapHelper.GetRegions: the regions of a type that bind a NUMA
GetRegions(pa, numaID, regionType) ==
    {n \in DOMAIN pa.regionMap :
        pa.regionMap[n].type = regionType /\ numaID \in pa.regionMap[n].numas}

\* the one binding NUMA of a NUMA-binding region: ToSliceInt()[0]
RegionNuma(r) == CHOOSE n \in r.numas : \A m \in r.numas : n <= m

getIsolationRequirements(pa, r) ==
    LET reservedForReclaim == getNUMAsResource(pa.reservedForReclaim, r.numas)
        available          == getNUMAsResource(pa.numaAvailable, r.numas)
                                + (IF pa.allowOverlap THEN reservedForReclaim ELSE 0)
        numaID             == RegionNuma(r)
        podsRequests       == Max(1, CeilCPU(r.request))
        isolationRegions   == GetRegions(pa, numaID, Isolation)
        isolationUpperSum  == SumUpMapValues(
                                [n \in isolationRegions |-> IntCPU(pa.regionMap[n].knob.upper)])
        useLower           == /\ isolationRegions # {}
                              /\ podsRequests + isolationUpperSum > available
    IN  IF \E n \in isolationRegions : pa.regionMap[n].provErr
        THEN [err |-> TRUE, req |-> EmptyMap]
        ELSE [err |-> FALSE,
              req |-> [n \in isolationRegions |->
                          IF useLower THEN IntCPU(pa.regionMap[n].knob.lower)
                          ELSE IntCPU(pa.regionMap[n].knob.upper)]]

overlapReclaimSizeOf_Uncapped(reservedForReclaim, reclaimedCoresAvail, ownerSize) ==
    Max(reservedForReclaim, reclaimedCoresAvail)

\* the reclaim pool that overlaps the owner pool of a NUMA-binding share
\* region outside cgroup-v2 unified mode
overlapReclaimSizeOf(reservedForReclaim, reclaimedCoresAvail, ownerSize) ==
    Min(Max(reservedForReclaim, reclaimedCoresAvail), ownerSize)

\* assembleShareNB after regulatePoolSizes: the pool entries of the region
\* and of the isolation regions on its NUMA, then the reclaim pool of the NUMA
assembleShareNBPools(pa, r, st, regulated) ==
    LET regionNuma         == RegionNuma(r)
        reservedForReclaim == getNUMAsResource(pa.reservedForReclaim, r.numas)
        available          == getNUMAsResource(pa.numaAvailable, r.numas)
        poolSizes          == regulated.sizes
        ownerSize          == regulated.sizes[r.pool]
        reclaimedCoresAvail == IF ~pa.enableReclaim THEN 0
                               ELSE ownerSize - IntCPU(r.knob.nonReclaim)
        overlapSize        == IF pa.cgroup2 THEN ownerSize
                              ELSE overlapReclaimSizeOf(reservedForReclaim,
                                                        reclaimedCoresAvail, ownerSize)
        overlapLimit       == IF ~pa.cgroup2 THEN NoQuota
                              ELSE IF r.knob.hasQuota THEN r.knob.quota
                              ELSE 2 * Max(reservedForReclaim, reclaimedCoresAvail)
        plainSize          == IF ~pa.enableReclaim THEN reservedForReclaim
                              ELSE available - SumUpMapValues(poolSizes) + reservedForReclaim
        st1                == SetPoolEntries(SetThrottled(st, r.name, regulated.throttled),
                                             poolSizes, regionNuma)
    IN  IF pa.allowOverlap
        THEN SetPoolEntry(
                 SetPoolOverlapInfo(st1, PoolNameReclaim, regionNuma, r.pool, overlapSize),
                 PoolNameReclaim, regionNuma, overlapSize, overlapLimit)
        ELSE SetPoolEntry(st1, PoolNameReclaim, regionNuma, plainSize, NoQuota)

assembleShareNB(pa, r, st) ==
    LET podsRequests       == Max(1, CeilCPU(r.request))
        available          == getNUMAsResource(pa.numaAvailable, r.numas)
        iso                == getIsolationRequirements(pa, r)
        shareRequirements  == [p \in {r.pool} |-> podsRequests]
        allowExpand        == ~pa.enableReclaim \/ pa.allowOverlap
    IN  IF r.type # Share \/ ~r.numaBinding \/ r.provErr \/ iso.err
        THEN [st EXCEPT !.err = TRUE]
        ELSE assembleShareNBPools(pa, r, st,
                 regulatePoolSizes(shareRequirements, iso.req, available, allowExpand))

hostsShareRegion_Never(shareRegions) == FALSE

\* len(shareRegions) != 0: the pool is left to the assembly of the share region
hostsShareRegion(shareRegions) == shareRegions # {}

assembleIsolationNB(pa, r, st) ==
    LET regionNuma         == RegionNuma(r)
        shareRegions       == GetRegions(pa, regionNuma, Share)
        st1                == SetPoolEntry(st, r.name, regionNuma, IntCPU(r.knob.upper), NoQuota)
        available          == getNUMAsResource(pa.numaAvailable, r.numas)
        reservedForReclaim == getNUMAsResource(pa.reservedForReclaim, r.numas)
        isolationRegions   == GetRegions(pa, regionNuma, Isolation)
        isolationSizes     == SumUpMapValues(
                                [n \in isolationRegions |-> IntCPU(pa.regionMap[n].knob.upper)])
        reclaimedCoresSize == Max(available - isolationSizes, reservedForReclaim)
    IN  IF r.type # Isolation \/ ~r.numaBinding \/ r.provErr
        THEN [st EXCEPT !.err = TRUE]
        ELSE IF hostsShareRegion(shareRegions) THEN st
        ELSE IF <<PoolNameReclaim, regionNuma>> \in DOMAIN st1.entries THEN st1
        ELSE IF \E n \in isolationRegions : pa.regionMap[n].provErr
        THEN [st1 EXCEPT !.err = TRUE]
        ELSE SetPoolEntry(st1, PoolNameReclaim, regionNuma, reclaimedCoresSize, NoQuota)

nonReclaimRequirementOf_Knob(r, available) == IntCPU(r.knob.nonReclaim)

\* what a dedicated region keeps from the reclaim pool: its
\* NonReclaimedCPURequirement knob, or the whole budget when the region's
\* reclaim is disabled
nonReclaimRequirementOf(r, available) ==
    IF ~r.enableReclaim THEN available ELSE IntCPU(r.knob.nonReclaim)

assembleDedicatedNE(pa, r, st) ==
    LET regionNuma         == RegionNuma(r)
        reservedForReclaim == getNUMAsResource(pa.reservedForReclaim, r.numas)
        available          == getNUMAsResource(pa.numaAvailable, r.numas)
        nonReclaimRequirement == nonReclaimRequirementOf(r, available)
        limit0             == 2 * Max(reservedForReclaim, available - nonReclaimRequirement)
        reclaimedCoresLimit == IF ~pa.cgroup2 THEN NoQuota
                               ELSE IF r.knob.hasQuota THEN Min(limit0, r.knob.quota)
                               ELSE limit0
        reclaimedCoresSize == IF pa.cgroup2 THEN available
                              ELSE Max(reservedForReclaim, available - nonReclaimRequirement)
    IN  IF r.type # DedicatedNumaExclusive \/ r.provErr
        THEN [st EXCEPT !.err = TRUE]
        ELSE SetPoolEntry(st, PoolNameReclaim, regionNuma, reclaimedCoresSize, reclaimedCoresLimit)

nonOverlapReclaimSize_NoReserve(nodeEnableReclaim, available, poolSum, reservedForReclaim) ==
    IF ~nodeEnableReclaim THEN reservedForReclaim ELSE available - poolSum

\* the reclaim pool when it does not overlap the share pools: what the share
\* and isolation pools leave of the budget, plus the reserve
nonOverlapReclaimSize(nodeEnableReclaim, available, poolSum, reservedForReclaim) ==
    IF ~nodeEnableReclaim THEN reservedForReclaim
    ELSE available - poolSum + reservedForReclaim

shareRequirementsOf_Requests(allowExpand, sharePoolRequests, sharePoolRequirements) ==
    sharePoolRequests

\* what the non-binding share pools are regulated by: the pods' requests when
\* the pools may expand, the policies' requirements otherwise
shareRequirementsOf(allowExpand, sharePoolRequests, sharePoolRequirements) ==
    IF allowExpand THEN sharePoolRequests ELSE sharePoolRequirements

\* the non-binding share regions, all tagged with the one flag of the collective
NonBindingShareRegions(pa) ==
    {n \in DOMAIN pa.regionMap :
        pa.regionMap[n].type = Share /\ ~pa.regionMap[n].numaBinding}

\* assembleShare when the reclaim pool overlaps the share pools: st holds the
\* share and isolation entries, sharePoolSizes the regulated share pools and
\* isolated the regulated isolation pools' sum
assembleShareOverlap(pa, st, requirements, sharePoolSizes, isolated, reserved, available) ==
    LET nodeEnableReclaim == pa.enableReclaim
        reclaim0          == IF ~nodeEnableReclaim THEN reserved
                             ELSE Max(reserved,
                                      available - isolated - SumUpMapValues(requirements))
        \* reclaim disabled: the overlap is the reserve, split over the share pools
        cappedReclaim     == Min(reclaim0, SumUpMapValues(sharePoolSizes))
        cappedSplit       == regulateOverlapReclaimPoolSize(sharePoolSizes, cappedReclaim)
        \* reclaim enabled: what each share pool holds above its requirement
        spare             == [p \in DOMAIN sharePoolSizes |->
                                 IF sharePoolSizes[p] - requirements[p] > 0
                                 THEN sharePoolSizes[p] - requirements[p]
                                 ELSE 1]
        spareSum          == SumUpMapValues(spare)
        floorSplit        == regulateOverlapReclaimPoolSize(sharePoolSizes, reserved)
        overlapErr        == IF ~nodeEnableReclaim THEN cappedSplit.err
                             ELSE spareSum < reserved /\ floorSplit.err
        overlapSizes      == IF ~nodeEnableReclaim THEN cappedSplit.sizes
                             ELSE IF spareSum < reserved THEN floorSplit.sizes
                             ELSE spare
        overlapReclaim    == IF ~nodeEnableReclaim THEN cappedReclaim
                             ELSE Max(spareSum, reserved)
    IN  IF DOMAIN sharePoolSizes = {}
        THEN SetPoolEntry(st, PoolNameReclaim, FakedNUMAID, reclaim0, NoQuota)
        ELSE IF overlapErr THEN [st EXCEPT !.err = TRUE]
        ELSE SetPoolEntry(SetPoolOverlaps(st, overlapSizes, FakedNUMAID),
                          PoolNameReclaim, FakedNUMAID, overlapReclaim, NoQuota)

\* assembleShare after regulatePoolSizes: the throttled flags, the share and
\* isolation entries, then the reclaim pool of the non-binding NUMAs
assembleSharePools(pa, st, regulated, reserved, available) ==
    LET sizes  == regulated.sizes
        st1    == [st EXCEPT !.throttled =
                      Merge(@, [n \in NonBindingShareRegions(pa) |-> regulated.throttled])]
        st2    == SetPoolEntries(st1, sizes, FakedNUMAID)
    IN  IF ~pa.allowOverlap
        THEN SetPoolEntry(st2, PoolNameReclaim, FakedNUMAID,
                          nonOverlapReclaimSize(pa.enableReclaim, available,
                                                SumUpMapValues(sizes), reserved),
                          NoQuota)
        ELSE assembleShareOverlap(pa, st2, st.sharePoolRequirements,
                 [p \in DOMAIN sizes \cap DOMAIN st.sharePoolRequirements |-> sizes[p]],
                 SumUpMapValues(
                     [p \in DOMAIN sizes \ DOMAIN st.sharePoolRequirements |-> sizes[p]]),
                 reserved, available)

isolationPoolSizesOf_Upper(requirementSum, isolationUppers, available, upperSizes, lowerSizes) ==
    upperSizes

\* the sizes of the non-binding isolation pools: the upper bounds, or the
\* lower bounds when the share requirements and the upper bounds together
\* exceed the budget
isolationPoolSizesOf(requirementSum, isolationUppers, available, upperSizes, lowerSizes) ==
    IF requirementSum + isolationUppers > available THEN lowerSizes ELSE upperSizes

assembleShare(pa, st) ==
    LET nodeEnableReclaim == pa.enableReclaim
        isolationUppers   == SumUpMapValues(st.isolationUpperSizes)
        nonBindingNUMAsReservedForReclaim ==
            getNUMAsResource(pa.reservedForReclaim, pa.nonBindingNumas)
        shareAndIsolatedPoolAvailable ==
            getNUMAsResource(pa.numaAvailable, pa.nonBindingNumas)
              - (IF ~pa.allowOverlap THEN nonBindingNUMAsReservedForReclaim ELSE 0)
        allowExpand       == ~nodeEnableReclaim \/ pa.allowOverlap
        requirements      == shareRequirementsOf(allowExpand, st.sharePoolRequests,
                                                 st.sharePoolRequirements)
        isolationPoolSizes ==
            isolationPoolSizesOf(SumUpMapValues(requirements), isolationUppers,
                                 shareAndIsolatedPoolAvailable,
                                 st.isolationUpperSizes, st.isolationLowerSizes)
    IN  assembleSharePools(pa, st,
            regulatePoolSizes(requirements, isolationPoolSizes,
                              shareAndIsolatedPoolAvailable, allowExpand),
            nonBindingNUMAsReservedForReclaim, shareAndIsolatedPoolAvailable)

\* ProvisionAssemblerCommon.assembleReserve
assembleReserve(pa, st) ==
    SetPoolEntry(st, PoolNameReserve, FakedNUMAID, pa.reservePoolSize, NoQuota)

getProvisionFailed_Ignored(r) == FALSE

\* controlKnob, err := r.GetProvision(); err != nil
getProvisionFailed(r) == r.provErr

\* the body of the loop `for _, r := range *pa.regionMap` of AssembleProvision
AssembleRegion(pa, r, st) ==
    IF getProvisionFailed(r) THEN [st EXCEPT !.err = TRUE]
    ELSE IF r.type = Share THEN
        IF r.numaBinding THEN assembleShareNB(pa, r, st)
        ELSE [st EXCEPT
                 !.sharePoolRequirements = Put(@, r.pool, Max(1, IntCPU(r.knob.nonReclaim))),
                 !.sharePoolRequests     = Put(@, r.pool, Max(1, CeilCPU(r.request)))]
    ELSE IF r.type = Isolation THEN
        IF r.numaBinding THEN assembleIsolationNB(pa, r, st)
        ELSE [st EXCEPT
                 !.isolationUpperSizes = Put(@, r.name, IntCPU(r.knob.upper)),
                 !.isolationLowerSizes = Put(@, r.name, IntCPU(r.knob.lower))]
    ELSE IF r.type = DedicatedNumaExclusive THEN assembleDedicatedNE(pa, r, st)
    ELSE st

RECURSIVE AssembleRegions(_, _, _)
\* the loop over the region map, in the order the map iteration yields
AssembleRegions(pa, order, st) ==
    IF order = <<>> \/ st.err THEN st
    ELSE AssembleRegions(pa, Tail(order), AssembleRegion(pa, pa.regionMap[Head(order)], st))

EmptyCalculation ==
    [err |-> FALSE, entries |-> EmptyMap, overlap |-> EmptyMap, throttled |-> EmptyMap,
     sharePoolRequirements |-> EmptyMap, sharePoolRequests |-> EmptyMap,
     isolationUpperSizes |-> EmptyMap, isolationLowerSizes |-> EmptyMap]

\* the return of AssembleProvision: the calculation result, or an error with
\* the empty result; throttled holds the SetThrottled calls made
provisionOf(st) ==
    IF st.err
    THEN [err |-> TRUE, entries |-> EmptyMap, overlap |-> EmptyMap,
          throttled |-> st.throttled]
    ELSE [err |-> FALSE, entries |-> st.entries, overlap |-> st.overlap,
          throttled |-> st.throttled]

\* assembleShare, which is not reached when a region failed
assembleShareAfter(pa, st) == IF st.err THEN st ELSE assembleShare(pa, st)

\* ProvisionAssemblerCommon.AssembleProvision
AssembleProvision(pa, order) ==
    provisionOf(assembleShareAfter(pa,
        AssembleRegions(pa, order, assembleReserve(pa, EmptyCalculation))))

-----------------------------------------------------------------------------
(* ProvisionAssemblerCommon, the second implementation of the source: one  *)
(* AssembleProvision that regulates share and isolation pools together and *)
(* splits the overlap of the non-binding reclaim pool itself. Its pool     *)
(* entries carry no quota; they are recorded with NoQuota here.            *)

\* regulatePoolSizes(poolSizes, available, enableReclaim, allowOverlap) of the
\* second implementation: the pools scaled to the budget when they exceed it
\* or may expand
regulatePoolSizesSecond(poolSizes, available, enableReclaim, allowOverlap) ==
    LET sum       == SumUpMapValues(poolSizes)
        targetSum == IF sum > available \/ ~enableReclaim \/ allowOverlap
                     THEN available ELSE sum
    IN  [sizes     |-> normalizePoolSizes(poolSizes, targetSum),
         throttled |-> sum > available]

RECURSIVE SortedByValue(_)
\* general.SortedByValue: the pools from the largest to the smallest
SortedByValue(m) ==
    IF DOMAIN m = {} THEN <<>>
    ELSE LET p == CHOOSE x \in DOMAIN m : \A y \in DOMAIN m :
                      \/ m[x] > m[y]
                      \/ m[x] = m[y] /\ Rank(x) <= Rank(y)
         IN  <<p>> \o SortedByValue([x \in DOMAIN m \ {p} |-> m[x]])

\* int(math.Round(float64(a) / float64(b))) for a >= 0, b > 0: halves go up
RoundDiv(a, b) == (2 * a + b) \div (2 * b)

\* sharedOverlapReclaimSize[key] += amount, on a key that may be absent
AddTo(m, key, amount) ==
    [x \in DOMAIN m \cup {key} |->
        IF x = key THEN (IF key \in DOMAIN m THEN m[key] ELSE 0) + amount ELSE m[x]]

residualBelow_Minus(sizes, last, diff) == AddTo(sizes, last, diff)

\* sharedOverlapReclaimSize[ps[len(ps)-1].Key] -= diff, reached with diff < 0
residualBelow(sizes, last, diff) == AddTo(sizes, last, 0 - diff)

\* the split of the non-binding reclaim pool over the share pools
sharedOverlapReclaimSizeSecond(sharePoolSizes, reclaimPoolSize) ==
    LET sharePoolSum == SumUpMapValues(sharePoolSizes)
        ps           == SortedByValue(sharePoolSizes)
        rounded      == [p \in DOMAIN sharePoolSizes |->
                            IF sharePoolSum = 0 THEN 0
                            ELSE RoundDiv(reclaimPoolSize * sharePoolSizes[p], sharePoolSum)]
        kept         == [p \in {x \in DOMAIN rounded : rounded[x] > 0} |-> rounded[p]]
        diff         == reclaimPoolSize - SumUpMapValues(kept)
    IN  IF diff > 0 THEN AddTo(kept, ps[1], diff)
        ELSE IF diff < 0 THEN residualBelow(kept, ps[Len(ps)], diff)
        ELSE kept

\* case QoSRegionTypeShare, r.IsNumaBinding()
assembleShareNBSecond(pa, r, st) ==
    LET regionNuma         == RegionNuma(r)
        reservedForReclaim == getNUMAsResource(pa.reservedForReclaim, r.numas)
        nonReclaimRequirement == IntCPU(r.knob.nonReclaim)
        available          == getNUMAsResource(pa.numaAvailable, r.numas)
                                + (IF pa.allowOverlap THEN reservedForReclaim ELSE 0)
        isolationRegions   == GetRegions(pa, regionNuma, Isolation)
        isolationUpperSum  == SumUpMapValues(
                                [n \in isolationRegions |-> IntCPU(pa.regionMap[n].knob.upper)])
        useLower           == /\ isolationRegions # {}
                              /\ nonReclaimRequirement + isolationUpperSum > available
        poolRequirements   == Merge([p \in {r.pool} |-> nonReclaimRequirement],
                                    [n \in isolationRegions |->
                                        IF useLower THEN IntCPU(pa.regionMap[n].knob.lower)
                                        ELSE IntCPU(pa.regionMap[n].knob.upper)])
        regulated          == regulatePoolSizesSecond(poolRequirements, available,
                                                      pa.enableReclaim, pa.allowOverlap)
        poolSizes          == regulated.sizes
        reclaimedCoresAvail == IF ~pa.enableReclaim THEN 0
                               ELSE poolSizes[r.pool] - poolRequirements[r.pool]
        overlapSize        == Min(Max(reservedForReclaim, reclaimedCoresAvail), poolSizes[r.pool])
        plainSize          == available - SumUpMapValues(poolSizes) + reservedForReclaim
        st1                == SetPoolEntries(SetThrottled(st, r.name, regulated.throttled),
                                             poolSizes, regionNuma)
    IN  IF \E n \in isolationRegions : pa.regionMap[n].provErr
        THEN [st EXCEPT !.err = TRUE]
        ELSE IF pa.allowOverlap
        THEN SetPoolEntry(
                 SetPoolOverlapInfo(st1, PoolNameReclaim, regionNuma, r.pool, overlapSize),
                 PoolNameReclaim, regionNuma, overlapSize, NoQuota)
        ELSE SetPoolEntry(st1, PoolNameReclaim, regionNuma, plainSize, NoQuota)

\* case QoSRegionTypeDedicatedNumaExclusive
assembleDedicatedNESecond(pa, r, st) ==
    LET regionNuma         == RegionNuma(r)
        reservedForReclaim == getNUMAsResource(pa.reservedForReclaim, r.numas)
        available          == getNUMAsResource(pa.numaAvailable, r.numas)
        reclaimed          == available - IntCPU(r.knob.nonReclaim) + reservedForReclaim
    IN  IF Cardinality(r.pods) # 1 THEN [st EXCEPT !.err = TRUE]
        ELSE IF ~(pa.enableReclaim /\ r.enableReclaim)
        THEN IF reservedForReclaim > 0
             THEN SetPoolEntry(st, PoolNameReclaim, regionNuma, reservedForReclaim, NoQuota)
             ELSE st
        ELSE SetPoolEntry(st, PoolNameReclaim, regionNuma, reclaimed, NoQuota)

\* the body of the loop `for _, r := range *pa.regionMap`
AssembleRegionSecond(pa, r, st) ==
    IF r.provErr THEN [st EXCEPT !.err = TRUE]
    ELSE IF r.type = Share THEN
        IF r.numaBinding THEN assembleShareNBSecond(pa, r, st)
        ELSE [st EXCEPT
                 !.sharePoolRequirements = Put(@, r.pool, IntCPU(r.knob.nonReclaim)),
                 !.shares = @ + IntCPU(r.knob.nonReclaim)]
    ELSE IF r.type = Isolation THEN
        IF r.numaBinding
        THEN IF GetRegions(pa, RegionNuma(r), Share) = {}
             THEN SetPoolEntry(st, r.name, RegionNuma(r), IntCPU(r.knob.upper), NoQuota)
             ELSE st
        ELSE [st EXCEPT
                 !.isolationUpperSizes = Put(@, r.name, IntCPU(r.knob.upper)),
                 !.isolationLowerSizes = Put(@, r.name, IntCPU(r.knob.lower)),
                 !.isolationUppers = @ + IntCPU(r.knob.upper)]
    ELSE IF r.type = DedicatedNumaExclusive THEN assembleDedicatedNESecond(pa, r, st)
    ELSE st

RECURSIVE AssembleRegionsSecond(_, _, _)
AssembleRegionsSecond(pa, order, st) ==
    IF order = <<>> \/ st.err THEN st
    ELSE AssembleRegionsSecond(pa, Tail(order),
                               AssembleRegionSecond(pa, pa.regionMap[Head(order)], st))

\* the reclaim pool of the non-binding NUMAs and its overlap records
assembleReclaimSecond(pa, st, sizes, available) ==
    LET reserved       == getNUMAsResource(pa.reservedForReclaim, pa.nonBindingNumas)
        plain          == available - SumUpMapValues(sizes) + reserved
        sharePoolSizes == [p \in DOMAIN st.sharePoolRequirements |->
                              IF p \in DOMAIN sizes THEN sizes[p] ELSE 0]
        isolated       == available - SumUpMapValues(sharePoolSizes)
        reclaim0       == IF ~pa.enableReclaim THEN reserved
                          ELSE Max(reserved, available - isolated
                                               - SumUpMapValues(st.sharePoolRequirements))
        capped         == Min(reclaim0, SumUpMapValues(sharePoolSizes))
    IN  IF ~pa.allowOverlap
        THEN SetPoolEntry(st, PoolNameReclaim, FakedNUMAID, plain, NoQuota)
        ELSE IF DOMAIN sharePoolSizes = {}
        THEN SetPoolEntry(st, PoolNameReclaim, FakedNUMAID, reclaim0, NoQuota)
        ELSE SetPoolEntry(
                 SetPoolOverlaps(st, sharedOverlapReclaimSizeSecond(sharePoolSizes, capped),
                                 FakedNUMAID),
                 PoolNameReclaim, FakedNUMAID, capped, NoQuota)

\* AssembleProvision after the loop over the regions
assembleNonBindingSecond(pa, st) ==
    LET available == getNUMAsResource(pa.numaAvailable, pa.nonBindingNumas)
                       + (IF pa.allowOverlap
                          THEN getNUMAsResource(pa.reservedForReclaim, pa.nonBindingNumas)
                          ELSE 0)
        requirements == IF st.shares + st.isolationUppers > available
                        THEN Merge(st.sharePoolRequirements, st.isolationLowerSizes)
                        ELSE Merge(st.sharePoolRequirements, st.isolationUpperSizes)
        regulated == regulatePoolSizesSecond(requirements, available,
                                             pa.enableReclaim, pa.allowOverlap)
        st1       == [st EXCEPT !.throttled =
                         Merge(@, [n \in NonBindingShareRegions(pa) |-> regulated.throttled])]
    IN  IF st.err THEN st
        ELSE assembleReclaimSecond(pa, SetPoolEntries(st1, regulated.sizes, FakedNUMAID),
                                   regulated.sizes, available)

EmptyCalculationSecond ==
    [err |-> FALSE, entries |-> EmptyMap, overlap |-> EmptyMap, throttled |-> EmptyMap,
     sharePoolRequirements |-> EmptyMap, isolationUpperSizes |-> EmptyMap,
     isolationLowerSizes |-> EmptyMap, shares |-> 0, isolationUppers |-> 0]

\* ProvisionAssemblerCommon.AssembleProvision, second implementation
AssembleProvisionSecond(pa, order) ==
    provisionOf(assembleNonBindingSecond(pa,
        AssembleRegionsSecond(pa, order, assembleReserve(pa, EmptyCalculationSecond))))

-----------------------------------------------------------------------------
(* updateNumasAvailableResource and updateAdvisorEssentials, shared by the  *)
(* advisor and by the assembler harness                                    *)

\* numaAvailable = NUMA size - the NUMA's share of the reserve pool
NumaAvailableOf(reservePoolSize) ==
    [n \in Numas |-> CPUsPerNuma - (reservePoolSize \div Cardinality(Numas))]

\* numas without numa binding pods: isolation regions are ignored
NonBindingNumasOf(regions) ==
    Numas \ UNION {regions[n].numas : n \in
                     {x \in DOMAIN regions :
                         /\ regions[x].numaBinding
                         /\ regions[x].type \in {DedicatedNumaExclusive, Share}}}

\* SetBindingNumas(nonBindingNumas) on every non-binding share region
WithBindingNumas(regions) ==
    [n \in DOMAIN regions |->
        IF regions[n].type = Share /\ ~regions[n].numaBinding
        THEN [regions[n] EXCEPT !.numas = NonBindingNumasOf(regions)]
        ELSE regions[n]]

-----------------------------------------------------------------------------
(* The assembler harness: AssembleProvision on inputs drawn from the       *)
(* region catalog below                                                    *)

\* most regions in one drawn region map
MaxRegions == 2

Knob(nonReclaim, upper, lower, hasQuota, quota) ==
    [nonReclaim |-> nonReclaim, upper |-> upper, lower |-> lower,
     hasQuota |-> hasQuota, quota |-> quota]

Region(name, type, numaBinding, numas, pool) ==
    [name |-> name, type |-> type, numaBinding |-> numaBinding, numas |-> numas,
     pool |-> pool, pods |-> {}, request |-> 0, knob |-> Knob(0, 0, 0, FALSE, 0),
     provErr |-> FALSE, enableReclaim |-> TRUE]

\* the regions a drawn map is made of: two non-binding share pools, two share
\* pools and two isolation regions bound to NUMA 0, a non-binding isolation
\* region, a dedicated region on NUMA 1
Catalog ==
    {Region("share", Share, FALSE, {}, "share"),
     Region("batch", Share, FALSE, {}, "batch"),
     Region("share-n0", Share, TRUE, {0}, "share-n0"),
     Region("batch-n0", Share, TRUE, {0}, "batch-n0"),
     Region("iso-a", Isolation, FALSE, {}, "share"),
     Region("iso-n0", Isolation, TRUE, {0}, "share-n0"),
     Region("iso-b", Isolation, TRUE, {0}, "share-n0"),
     Region("ded-n1", DedicatedNumaExclusive, TRUE, {1}, "dedicated")}

\* what the policies of a region may report, in half-CPUs
ShareValues ==
    {[request |-> 1, knob |-> Knob(2, 0, 0, FALSE, 0), enableReclaim |-> TRUE],
     [request |-> 9, knob |-> Knob(7, 0, 0, FALSE, 0), enableReclaim |-> TRUE],
     [request |-> 5, knob |-> Knob(11, 0, 0, TRUE, 3), enableReclaim |-> TRUE]}
IsolationValues ==
    {[request |-> 2, knob |-> Knob(0, 2, 2, FALSE, 0), enableReclaim |-> TRUE],
     [request |-> 3, knob |-> Knob(0, 8, 3, FALSE, 0), enableReclaim |-> TRUE],
     [request |-> 10, knob |-> Knob(0, 12, 10, FALSE, 0), enableReclaim |-> TRUE]}
DedicatedValues ==
    {[request |-> 4, knob |-> Knob(4, 0, 0, FALSE, 0), enableReclaim |-> TRUE],
     [request |-> 12, knob |-> Knob(12, 0, 0, TRUE, 3), enableReclaim |-> TRUE],
     [request |-> 4, knob |-> Knob(4, 0, 0, FALSE, 0), enableReclaim |-> FALSE]}

ValuesOf(r) ==
    IF r.type = Share THEN ShareValues
    ELSE IF r.type = Isolation THEN IsolationValues
    ELSE DedicatedValues

WithValues(r, v, provErr) ==
    [r EXCEPT !.request = v.request, !.knob = v.knob,
              !.enableReclaim = v.enableReclaim, !.provErr = provErr]

\* the region maps over a set of catalog regions: each region with one of
\* its values, at most one region's provision policy having failed
RegionMapsOver(regs) ==
    LET names  == {r.name : r \in regs}
        byName == [n \in names |-> CHOOSE r \in regs : r.name = n]
        allV   == ShareValues \cup IsolationValues \cup DedicatedValues
    IN  {WithBindingNumas([n \in names |-> WithValues(byName[n], vals[n], n = failed)]) :
            vals \in {f \in [names -> allV] : \A n \in names : f[n] \in ValuesOf(byName[n])},
            failed \in names \cup {"none"}}

AsmRegionMaps ==
    UNION {RegionMapsOver(regs) : regs \in {x \in SUBSET Catalog : Cardinality(x) <= MaxRegions}}

MkAssembler(regions, reserve, allowOverlap, enableReclaim, cgroup2, reservePoolSize) ==
    [regionMap          |-> regions,
     reservedForReclaim |-> [n \in Numas |-> reserve],
     numaAvailable      |-> NumaAvailableOf(reservePoolSize),
     nonBindingNumas    |-> NonBindingNumasOf(regions),
     allowOverlap       |-> allowOverlap,
     enableReclaim      |-> enableReclaim,
     cgroup2            |-> cgroup2,
     reservePoolSize    |-> reservePoolSize]

\* the visiting orders of a region map: Go randomises map iteration
Orders(regions) ==
    {o \in [1..Cardinality(DOMAIN regions) -> DOMAIN regions] :
        \A i, j \in DOMAIN o : i # j => o[i] # o[j]}

NoResult == [err |-> FALSE, entries |-> EmptyMap, overlap |-> EmptyMap, throttled |-> EmptyMap]

\* general.HealthzCheckState
HealthzCheckStateReady == "Ready"
HealthzCheckStateNotReady == "NotReady"
cpuAdvisorHealthCheckName == "cpu_advisor_update"

\* what UpdateAndGetAdvice has returned before its first call
NoAdvice == [err |-> "none", nil |-> TRUE, entries |-> EmptyMap, overlap |-> EmptyMap]

\* the advisor state a GetHeadroom call reads
AdvisorState == [regionMap |-> regionMap, numaAvailable |-> numaAvailable,
                 nonBindingNumas |-> nonBindingNumas]

\* no update is running
NoSnapshot == [regionMap |-> EmptyMap, numaAvailable |-> EmptyMap, nonBindingNumas |-> {}]

\* NewCPUResourceAdvisor, with the cpu_advisor_update check registered by the
\* plugin that owns the advisor
NewCPUResourceAdvisor ==
    /\ regionMap = EmptyMap
    /\ numaAvailable = EmptyMap
    /\ nonBindingNumas = {}
    /\ advisorUpdated = FALSE
    /\ mutex = [writer |-> FALSE, readers |-> 0]
    /\ pc = "idle"
    /\ pass = 0
    /\ tryIsolation = FALSE
    /\ isolationExists = FALSE
    /\ passErrs = <<>>
    /\ result = NoAdvice
    /\ healthzCheckMap = [n \in {cpuAdvisorHealthCheckName} |->
                             [State |-> HealthzCheckStateNotReady]]
    /\ readerPc = "idle"
    /\ atLock = NoSnapshot
    /\ prevOk = FALSE
    /\ ticks = 0

\* an empty meta-cache under one configuration
EmptyMetaCache(allowOverlap, enableReclaim, cgroup2) ==
    /\ containers = EmptyMap
    /\ reservePoolExists = FALSE
    /\ conf = [allowOverlap |-> allowOverlap, enableReclaim |-> enableReclaim,
               cgroup2 |-> cgroup2]

\* no pending work: the nil of lastUndeliveredWork; works are numbered from 1
NoWork == 0

\* the zero time.Time, which RegisterReportCheck leaves in LastUpdateTime and
\* every Register call leaves in UnhealthyStartTime
ZeroTime == 0

\* the health check registry at start: healthzCheckMap is empty
NewHealthzCheckMap ==
    /\ now = 1
    /\ registry = << >>
    /\ results = << >>
    /\ hzHist = << >>

\* ---------------------------------------------------------------------------
\* PolicyNUMAAware: the memory headroom of the available NUMAs
\* ---------------------------------------------------------------------------

NumNUMANodes == 2
NUMANodes == 0..(NumNUMANodes - 1)

\* float64 values are modelled as exact fractions <<numerator, denominator>>
\* in lowest terms, with a positive denominator
RECURSIVE GCD(_, _)
GCD(a, b) == IF b = 0 THEN a ELSE GCD(b, a % b)

Abs(n) == IF n < 0 THEN 0 - n ELSE n

Reduced(n, d, g) == <<n \div g, d \div g>>
Q(n, d) == Reduced(n, d, GCD(Abs(n), d))
QInt(n) == <<n, 1>>
QAdd(a, b) == Q(a[1] * b[2] + b[1] * a[2], a[2] * b[2])
QSub(a, b) == Q(a[1] * b[2] - b[1] * a[2], a[2] * b[2])
QMulReduced(a, b, g1, g2) ==
    Q((a[1] \div g1) * (b[1] \div g2), (a[2] \div g2) * (b[2] \div g1))
QMul(a, b) == QMulReduced(a, b, GCD(Abs(a[1]), b[2]), GCD(Abs(b[1]), a[2]))
\* a / b for b > 0
QDiv(a, b) == QMul(a, <<b[2], b[1]>>)
QLess(a, b) == a[1] * b[2] < b[1] * a[2]
\* math.Max
QMax(a, b) == IF QLess(a, b) THEN b ELSE a
\* int64(f) for f >= 0: the fraction is dropped
Int64(a) == a[1] \div a[2]

RECURSIVE QSum(_, _)
\* the sum of f[x] over the x of S
QSum(f, S) ==
    IF S = {} THEN QInt(0)
    ELSE LET x == CHOOSE y \in S : TRUE IN QAdd(f[x], QSum(f, S \ {x}))

PolicyUpdateFailed == "Failed"
PolicyUpdateSucceeded == "Succeeded"

numaReclaimable_Minus(free, inactiveFile, CacheBasedRatio) ==
    QSub(QInt(free), QMul(QInt(inactiveFile), CacheBasedRatio))

\* numaReclaimable := free + inactiveFile*dynamicConfig.CacheBasedRatio
numaReclaimable(free, inactiveFile, CacheBasedRatio) ==
    QAdd(QInt(free), QMul(QInt(inactiveFile), CacheBasedRatio))

systemWatermarkReserved_Unscaled(availNUMATotal, watermarkScaleFactor) ==
    Q(availNUMATotal * watermarkScaleFactor, 1)

\* systemWatermarkReserved := availNUMATotal * watermarkScaleFactor.Value / 10000
systemWatermarkReserved(availNUMATotal, watermarkScaleFactor) ==
    Q(availNUMATotal * watermarkScaleFactor, 10000)

\* the metrics Update asks for, in the order it asks; a fault is the metric
\* that cannot be obtained, <<"none", 0>> when all can, and <<"helper", 0>>
\* when GetAvailableNUMAsAndReclaimedCores fails
Faults ==
    {<<"none", 0>>, <<"helper", 0>>, <<"scale", 0>>}
        \cup ({"free", "inactiveFile", "total"} \X NUMANodes)

\* the error Update returns
updateErr(in, fault) ==
    IF fault[1] = "helper" THEN "helper"
    ELSE IF fault[1] \in {"free", "inactiveFile", "total"} /\ fault[2] \in in.availNUMAs
         THEN fault[1]
    ELSE IF fault[1] = "scale" THEN "scale"
    ELSE "none"

statusOf_Succeeded(err) == PolicyUpdateSucceeded

\* the deferred function of Update
statusOf(err) == IF err # "none" THEN PolicyUpdateFailed ELSE PolicyUpdateSucceeded

\* the containers that add to numaReclaimableMemory[numaID]
AssignedTo(in, numaID) ==
    {i \in DOMAIN in.containers :
        /\ in.containers[i].MemoryRequest > 0
        /\ numaID \in in.containers[i].TopologyAwareAssignments}

\* numaReclaimableMemory after the two loops; its keys are the available NUMAs
\* and the NUMAs the reclaimed-cores containers are assigned to
numaReclaimableMemory(in) ==
    [numaID \in {n \in NUMANodes : n \in in.availNUMAs \/ AssignedTo(in, n) # {}} |->
        QAdd(IF numaID \in in.availNUMAs
             THEN numaReclaimable(in.free[numaID], in.inactiveFile[numaID],
                                  in.CacheBasedRatio)
             ELSE QInt(0),
             QSum([i \in AssignedTo(in, numaID) |->
                      Q(in.containers[i].MemoryRequest,
                        Cardinality(in.containers[i].TopologyAwareAssignments))],
                  AssignedTo(in, numaID)))]

\* reclaimableMemory after the two loops
reclaimableMemory(in) ==
    QAdd(QSum([n \in in.availNUMAs |->
                  numaReclaimable(in.free[n], in.inactiveFile[n], in.CacheBasedRatio)],
              in.availNUMAs),
         QSum([i \in DOMAIN in.containers |-> QInt(in.containers[i].MemoryRequest)],
              DOMAIN in.containers))

availNUMATotal(in) == SumUpMapValues([n \in in.availNUMAs |-> in.total[n]])

\* reservedForAllocate += p.essentials.ReservedForAllocate / float64(NumNUMANodes)
reservedForAllocate(in) ==
    Q(Cardinality(in.availNUMAs) * in.ReservedForAllocate, NumNUMANodes)

\* p.memoryHeadroom = math.Max(reclaimableMemory-systemWatermarkReserved-reservedForAllocate, 0)
memoryHeadroomOf(reclaimable, watermark, reserved) ==
    QMax(QSub(QSub(reclaimable, watermark), reserved), QInt(0))

reduceRatio(headroom, reclaimable) ==
    IF QLess(QInt(0), reclaimable) THEN QDiv(headroom, reclaimable) ELSE QInt(0)

\* numaHeadroom: every key of numaReclaimableMemory scaled by reduceRatio and
\* cut to an int64, every other NUMA zero
numaHeadroom(numaReclaimableMem, ratio) ==
    [numaID \in NUMANodes |->
        IF numaID \in DOMAIN numaReclaimableMem
        THEN Int64(QMul(numaReclaimableMem[numaID], ratio))
        ELSE 0]

succeeded(p, headroom, reclaimable, numaReclaimableMem) ==
    [p EXCEPT !.memoryHeadroom = headroom,
              !.numaMemoryHeadroom =
                  numaHeadroom(numaReclaimableMem, reduceRatio(headroom, reclaimable)),
              !.updateStatus = statusOf("none")]

\* PolicyNUMAAware.Update
Update(p, in, fault) ==
    IF updateErr(in, fault) # "none"
    THEN [p EXCEPT !.updateStatus = statusOf(updateErr(in, fault))]
    ELSE succeeded(p,
                   memoryHeadroomOf(reclaimableMemory(in),
                                    systemWatermarkReserved(availNUMATotal(in),
                                                            in.watermarkScaleFactor),
                                    reservedForAllocate(in)),
                   reclaimableMemory(in), numaReclaimableMemory(in))

\* PolicyNUMAAware.GetHeadroom
GetHeadroomOf(p) ==
    IF p.updateStatus # PolicyUpdateSucceeded
    THEN [err |-> "last update failed", headroom |-> 0, numaHeadroom |-> << >>]
    ELSE [err |-> "none", headroom |-> Int64(p.memoryHeadroom),
          numaHeadroom |-> p.numaMemoryHeadroom]

\* memory is counted in hundredths of a G
NUMAMetrics ==
    {[free |-> 400, inactiveFile |-> 1000, total |-> 3200],
     [free |-> 800, inactiveFile |-> 50, total |-> 3200]}

ContainerSets ==
    {<< >>, <<[MemoryRequest |-> 100, TopologyAwareAssignments |-> {0}]>>,
     <<[MemoryRequest |-> 100, TopologyAwareAssignments |-> {}]>>}

MkMemInput(m, avail, ratio, scale, reserved, cs) ==
    [availNUMAs |-> avail,
     free |-> [n \in NUMANodes |-> m[n].free],
     inactiveFile |-> [n \in NUMANodes |-> m[n].inactiveFile],
     total |-> [n \in NUMANodes |-> m[n].total],
     CacheBasedRatio |-> ratio, watermarkScaleFactor |-> scale,
     ReservedForAllocate |-> reserved, containers |-> cs]

MemInputs ==
    {MkMemInput(m, avail, ratio, scale, reserved, cs) :
        m \in [NUMANodes -> NUMAMetrics], avail \in SUBSET NUMANodes,
        ratio \in {<<0, 1>>, <<1, 2>>, <<1, 1>>}, scale \in {100, 6000},
        reserved \in {200}, cs \in ContainerSets}

\* scenario 5 of the specification: free 4G, inactiveFile 10G and total 32G on
\* each NUMA, CacheBasedRatio 0.5, scale factor 100, 2G reserved, no container
Scenario5 ==
    MkMemInput([n \in NUMANodes |-> [free |-> 400, inactiveFile |-> 1000, total |-> 3200]],
               NUMANodes, <<1, 2>>, 100, 200, << >>)

NewPolicyNUMAAware ==
    /\ pna = [memoryHeadroom |-> QInt(0), numaMemoryHeadroom |-> << >>,
              updateStatus |-> PolicyUpdateFailed]
    /\ memOut = [err |-> "not called", headroom |-> 0, numaHeadroom |-> << >>]
    /\ memHist = [fault |-> <<"none", 0>>, err |-> "never", doubled |-> {},
                  before |-> [err |-> "not called", headroom |-> 0, numaHeadroom |-> << >>]]

NoPolicy ==
    /\ memIn = Scenario5
    /\ NewPolicyNUMAAware

\* ---------------------------------------------------------------------------
\* MemoryPluginCheckpoint: the checkpoint, its JSON bytes and its checksum
\* ---------------------------------------------------------------------------

\* a Go map is nil or holds entries; the two are told apart by the flag
NilMap == [nil |-> TRUE, m |-> << >>]
MakeMap(m) == [nil |-> FALSE, m |-> m]
len(gomap) == Cardinality(DOMAIN gomap.m)

\* the values a map field of the checkpoint takes here
MapValues == {NilMap, MakeMap(<< >>), MakeMap([k \in {0} |-> "v"])}

NoBlob == << >>
NoCheckpointObject == [none |-> TRUE]

\* the fields of MemoryPluginCheckpoint that are maps, with their JSON keys in
\* the order of the struct
MapFields == <<"MachineState", "NUMAHeadroom", "PodResourceEntries", "SocketTopology">>
JSONKey ==
    [MachineState |-> "machineState", NUMAHeadroom |-> "numa_headroom",
     PodResourceEntries |-> "pod_resource_entries", SocketTopology |-> "socket_topology"]
\* the fields tagged omitempty
OmitEmpty == {"SocketTopology"}

\* Checksum = 0
ZeroChecksum == << >>

MkCheckpoint(ms, nh, pre, st) ==
    [PolicyName |-> "policy", MachineState |-> ms, NUMAHeadroom |-> nh,
     PodResourceEntries |-> pre, SocketTopology |-> st, Checksum |-> ZeroChecksum]

\* &MemoryPluginCheckpoint{}
ZeroCheckpoint == MkCheckpoint(NilMap, NilMap, NilMap, NilMap)

\* NewMemoryPluginCheckpoint
NewMemoryPluginCheckpoint ==
    MkCheckpoint(MakeMap(<< >>), MakeMap(<< >>), MakeMap(<< >>), MakeMap(<< >>))

\* checksum.New: the hash of the printed object; a nil map and an empty map
\* print differently, and two objects that print differently are taken to
\* hash differently
checksumNew(c) ==
    <<c.PolicyName, c.MachineState, c.NUMAHeadroom, c.PodResourceEntries,
      c.SocketTopology, c.Checksum>>

\* json.Marshal of a map: null for a nil map, an object with the entries
\* otherwise
JSONNull == [json |-> "null", members |-> << >>]
jsonValue(gomap) ==
    IF gomap.nil THEN JSONNull ELSE [json |-> "object", members |-> gomap.m]

\* json.Marshal of the map fields: one member per field, in struct order, an
\* omitempty field of length zero left out
RECURSIVE jsonMembers(_, _)
jsonMembers(c, i) ==
    IF i > Len(MapFields) THEN << >>
    ELSE (IF MapFields[i] \in OmitEmpty /\ len(c[MapFields[i]]) = 0
          THEN << >>
          ELSE << <<JSONKey[MapFields[i]], jsonValue(c[MapFields[i]])>> >>)
         \o jsonMembers(c, i + 1)

\* json.Marshal(*cp)
jsonMarshal(c) ==
    << <<"policyName", c.PolicyName>> >> \o jsonMembers(c, 1)
        \o << <<"checksum", c.Checksum>> >>

\* the value of a member of the JSON object, for a key that is present
Member(b, key) == b[CHOOSE i \in DOMAIN b : b[i][1] = key][2]
Has(b, key) == \E i \in DOMAIN b : b[i][1] = key

\* json.Unmarshal into a map field: null makes the map nil, an object makes
\* it a map with the entries of the object, an absent key leaves the field
unmarshalMap(b, key, old) ==
    IF ~Has(b, key) THEN old
    ELSE IF Member(b, key) = JSONNull THEN NilMap
    ELSE MakeMap(Member(b, key).members)

\* json.Unmarshal(blob, cp)
jsonUnmarshal(b, target) ==
    [PolicyName |-> IF Has(b, "policyName") THEN Member(b, "policyName")
                    ELSE target.PolicyName,
     MachineState |-> unmarshalMap(b, "machineState", target.MachineState),
     NUMAHeadroom |-> unmarshalMap(b, "numa_headroom", target.NUMAHeadroom),
     PodResourceEntries |->
         unmarshalMap(b, "pod_resource_entries", target.PodResourceEntries),
     SocketTopology |-> unmarshalMap(b, "socket_topology", target.SocketTopology),
     Checksum |-> IF Has(b, "checksum") THEN Member(b, "checksum") ELSE target.Checksum]

\* cp after MarshalCheckpoint: the checksum is that of cp with Checksum zero
withChecksum(c) == [c EXCEPT !.Checksum = checksumNew([c EXCEPT !.Checksum = ZeroChecksum])]

\* VerifyChecksum: nil when the checksum is that of cp with Checksum zero
verifyChecksum(c) ==
    IF c.Checksum = checksumNew([c EXCEPT !.Checksum = ZeroChecksum]) THEN "nil"
    ELSE "ErrCorruptCheckpoint"

\* no checkpoint has been marshalled
NoCheckpoint ==
    /\ blob = NoBlob
    /\ altered = FALSE
    /\ restored = NoCheckpointObject
    /\ verified = "not called"
    /\ blob2 = NoBlob

\* the advisor of the region assignment before its first pass: no
\* container, no region
NoPass == [ran |-> FALSE, err |-> FALSE, gc |-> FALSE, returned |-> << >>,
           synced |-> << >>]

NoRegions ==
    /\ rgContainers = << >>
    /\ rgRegionMap = << >>
    /\ rgSeq = 0
    /\ rgTicks = 0
    /\ rgEvents = 0
    /\ rgLast = NoPass

NoRegionAssignment ==
    /\ rgConf = [enableShareCoresNumaBinding |-> FALSE]
    /\ rgPools = << >>
    /\ NoRegions

\* the second implementation has not been called
NoSecondAssembly ==
    /\ secondOut = NoResult
    /\ secondDone = FALSE

\* checkCPUSet has not run and the state holds no pod
NoCPUSetCheck ==
    /\ csEntries = << >>
    /\ csHealth = "NotReady"
    /\ csLast = [ran |-> FALSE, order |-> <<>>, lookups |-> << >>, actual |-> << >>]
    /\ csRuns = 0

NoRun == [ran |-> FALSE, listErr |-> FALSE, podSet |-> {}, candidates |-> {},
          failed |-> {}, stored |-> FALSE]

\* clearResidualState has not run and the state holds no pod
NoResidualState ==
    /\ crConf = [enableCPUAdvisor |-> FALSE]
    /\ crEntries = << >>
    /\ residualHitMap = << >>
    /\ crWatcher = {}
    /\ crAbsent = << >>
    /\ crHealth = "NotReady"
    /\ crLast = NoRun
    /\ crRuns = 0

NoTickHistory == tickSucceeded = FALSE

MemoryPressureNoRisk == "NoRisk"
MemoryPressureDropCache == "DropCache"
\* a nil TargetReclaimed
NoTarget == 0 - 1
NoCondition == [State |-> MemoryPressureNoRisk, TargetReclaimed |-> NoTarget]

\* a Reconcile call that has not started
NoReconcile ==
    [status |-> [node |-> NoCondition, numa |-> NoCondition], selected |-> {},
     local |-> << >>]

\* NewCacheReaper, with an empty meta-cache
NewCacheReaper ==
    /\ containersToReapCache = << >>
    /\ rpMutex = [writer |-> FALSE, readers |-> 0]
    /\ rpPc = "idle"
    /\ rpCall = NoReconcile
    /\ rpPrev = << >>
    /\ rpReaderPc = "idle"
    /\ rpAdvices = {}
    /\ rpReconciles = 0

NoCacheReaper == rpContainers = {} /\ NewCacheReaper

NoMore ==
    /\ NoSecondAssembly
    /\ NoCPUSetCheck
    /\ NoResidualState
    /\ NoTickHistory
    /\ NoCacheReaper

ExtInit ==
    /\ cp = NewMemoryPluginCheckpoint
    /\ NoCheckpoint
    /\ NoRegionAssignment
    /\ NoMore

\* NewAsyncWorkers
NewAsyncWorkers ==
    /\ workStatuses = EmptyMap
    /\ lastUndeliveredWork = EmptyMap
    /\ submitted = <<>>
    /\ executed = <<>>
    /\ finished = {}

\* no assembly under way in the harness
NoAssembly ==
    /\ asmIn = EmptyMap
    /\ asmOrder = <<>>
    /\ asmOut = NoResult
    /\ asmDone = FALSE

AsmInit ==
    /\ NewCPUResourceAdvisor
    /\ EmptyMetaCache(FALSE, FALSE, FALSE)
    /\ NewAsyncWorkers
    /\ NewHealthzCheckMap
    /\ NoPolicy
    /\ ExtInit
    /\ asmIn \in {MkAssembler(rm, reserve, ov, er, cg, ReservePoolSize) :
                     rm \in AsmRegionMaps, reserve \in {0, ReclaimReserve},
                     ov \in BOOLEAN, er \in BOOLEAN, cg \in BOOLEAN}
    /\ asmOrder = <<>>
    /\ asmOut = NoResult
    /\ asmDone = FALSE

\* one call of AssembleProvision
Assemble ==
    /\ ~asmDone
    /\ \E order \in Orders(asmIn.regionMap) :
          /\ asmOrder' = order
          /\ asmOut' = AssembleProvision(asmIn, order)
    /\ asmDone' = TRUE
    /\ UNCHANGED <<asmIn, advVars, aswVars, hzVars, memVars, extVars>>

AsmNext == Assemble

AsmSpec == AsmInit /\ [][AsmNext]_vars

-----------------------------------------------------------------------------
(* Claims about AssembleProvision, checked under AsmSpec                   *)

Produced == asmDone /\ ~asmOut.err

\* the pool entries of a result at one NUMA id, and the sum of some of them
EntriesAt(out, numaID) == {k \in DOMAIN out.entries : k[2] = numaID}
SizeSum(out, keys) == SumUpMapValues([k \in keys |-> out.entries[k].size])

\* the CPUs of the NUMAs behind a NUMA id of the result
CapacityOf(pa, numaID) ==
    IF numaID = FakedNUMAID THEN CPUsPerNuma * Cardinality(pa.nonBindingNumas)
    ELSE CPUsPerNuma

\* the share and isolation pools of a result at a NUMA id
ShareAndIsolationAt(out, numaID) ==
    {k \in EntriesAt(out, numaID) : k[1] \notin {PoolNameReclaim, PoolNameReserve}}

WithinBudget(pa, out, numaID) ==
    IF pa.allowOverlap
    THEN SizeSum(out, ShareAndIsolationAt(out, numaID)) <= CapacityOf(pa, numaID)
    ELSE SizeSum(out, {k \in EntriesAt(out, numaID) : k[1] # PoolNameReserve})
            <= CapacityOf(pa, numaID)

\* C1: after an assembly that produced a result, the pools emitted for every
\* NUMA, and for the non-binding collective at FakedNUMAID, sum to at most the
\* CPUs of that NUMA (of the non-binding NUMAs); with overlap allowed the share
\* and isolation pools alone do.
C1_Budget ==
    Produced => \A numaID \in Numas \cup {FakedNUMAID} : WithinBudget(asmIn, asmOut, numaID)

\* the NUMAs behind a NUMA id of the result
NumasOf(pa, numaID) == IF numaID = FakedNUMAID THEN pa.nonBindingNumas ELSE {numaID}

\* the CPUs of a NUMA that its dedicated region has committed: the region's
\* non-reclaimed requirement, the whole of numaAvailable when it disables reclaim
DedicatedCommitment(pa, n) ==
    LET ded == GetRegions(pa, n, DedicatedNumaExclusive)
    IN  SumUpMapValues([d \in ded |->
            IF ~pa.regionMap[d].enableReclaim THEN pa.numaAvailable[n]
            ELSE IntCPU(pa.regionMap[d].knob.nonReclaim)])

\* reservedForReclaim fits in what the dedicated commitment leaves of the NUMAs
ReservePermitted(pa, numaID) ==
    getNUMAsResource(pa.reservedForReclaim, NumasOf(pa, numaID))
        <= SumUpMapValues([n \in NumasOf(pa, numaID) |->
                              CPUsPerNuma - DedicatedCommitment(pa, n)])

ReclaimAtLeastReserve(pa, out, numaID) ==
    out.entries[<<PoolNameReclaim, numaID>>].size
        >= getNUMAsResource(pa.reservedForReclaim, NumasOf(pa, numaID))

\* C4 (as claimed): in every result the reclaim entry of each NUMA, and of the
\* non-binding collective, is at least the reservedForReclaim of those NUMAs
\* whenever that reserve fits in the capacity left by the dedicated commitment.
C4_ReclaimFloor ==
    Produced =>
        \A numaID \in Numas \cup {FakedNUMAID} :
            (/\ <<PoolNameReclaim, numaID>> \in DOMAIN asmOut.entries
             /\ ReservePermitted(asmIn, numaID))
            => ReclaimAtLeastReserve(asmIn, asmOut, numaID)

\* the share regions regulated for a NUMA id, and the isolation regions
\* regulated with them
ShareRegionsAt(pa, numaID) ==
    IF numaID = FakedNUMAID THEN NonBindingShareRegions(pa)
    ELSE {n \in GetRegions(pa, numaID, Share) : pa.regionMap[n].numaBinding}

IsolationRegionsAt(pa, numaID) ==
    IF numaID = FakedNUMAID
    THEN {n \in DOMAIN pa.regionMap :
             pa.regionMap[n].type = Isolation /\ ~pa.regionMap[n].numaBinding}
    ELSE GetRegions(pa, numaID, Isolation)

SharePoolsAt(pa, out, numaID) ==
    {k \in EntriesAt(out, numaID) :
        \E n \in ShareRegionsAt(pa, numaID) : pa.regionMap[n].pool = k[1]}

IsolationLowerAt(pa, numaID) ==
    SumUpMapValues([n \in IsolationRegionsAt(pa, numaID) |->
                       IntCPU(pa.regionMap[n].knob.lower)])

\* the budget the share and isolation pools of a NUMA id are regulated in
RegulationBudget(pa, numaID) ==
    IF numaID = FakedNUMAID
    THEN getNUMAsResource(pa.numaAvailable, pa.nonBindingNumas)
           - (IF pa.allowOverlap THEN 0
              ELSE getNUMAsResource(pa.reservedForReclaim, pa.nonBindingNumas))
    ELSE pa.numaAvailable[numaID]

\* one CPU for each share pool and the lower bounds of the isolation regions
\* fit in the budget: a NUMA-binding share region is regulated alone
MinimumFits(pa, numaID) ==
    IF numaID = FakedNUMAID
    THEN Cardinality(ShareRegionsAt(pa, numaID)) + IsolationLowerAt(pa, numaID)
            <= RegulationBudget(pa, numaID)
    ELSE \/ ShareRegionsAt(pa, numaID) = {}
         \/ 1 + IsolationLowerAt(pa, numaID) <= RegulationBudget(pa, numaID)

SmallestSharePool(pa, out, numaID) ==
    LET pools == SharePoolsAt(pa, out, numaID)
        k     == CHOOSE x \in pools : \A y \in pools : out.entries[x].size <= out.entries[y].size
    IN  out.entries[k].size

ReclaimFloorAt(pa, out, numaID) ==
    LET reserved == getNUMAsResource(pa.reservedForReclaim, NumasOf(pa, numaID))
        size     == out.entries[<<PoolNameReclaim, numaID>>].size
    IN  IF ~pa.allowOverlap THEN MinimumFits(pa, numaID) => size >= reserved
        ELSE IF SharePoolsAt(pa, out, numaID) = {} THEN size >= reserved
        ELSE size >= Min(reserved, SmallestSharePool(pa, out, numaID))

\* C4 (amended): in every result the reclaim entry of each NUMA, and of the
\* non-binding collective, whose reserve fits in the capacity left by the
\* dedicated commitment, is at least reservedForReclaim when overlap is off
\* and one CPU per share pool plus the isolation lower bounds fit in the
\* regulation budget; with overlap on it is at least the smaller of
\* reservedForReclaim and the smallest share pool emitted for that NUMA id.
C4_ReclaimFloorAmended ==
    Produced =>
        \A numaID \in Numas \cup {FakedNUMAID} :
            (/\ <<PoolNameReclaim, numaID>> \in DOMAIN asmOut.entries
             /\ ReservePermitted(asmIn, numaID))
            => ReclaimFloorAt(asmIn, asmOut, numaID)

\* the floor binds: with overlap off and reclaim on, share and isolation pools
\* use up the budget of a NUMA id and its reclaim entry is exactly the reserve
C4_Witness ==
    /\ Produced
    /\ ~asmIn.allowOverlap /\ asmIn.enableReclaim
    /\ \E numaID \in Numas \cup {FakedNUMAID} :
          /\ <<PoolNameReclaim, numaID>> \in DOMAIN asmOut.entries
          /\ ReservePermitted(asmIn, numaID)
          /\ MinimumFits(asmIn, numaID)
          /\ SharePoolsAt(asmIn, asmOut, numaID) # {}
          /\ IsolationRegionsAt(asmIn, numaID) # {}
          /\ getNUMAsResource(asmIn.reservedForReclaim, NumasOf(asmIn, numaID)) > 0
          /\ asmOut.entries[<<PoolNameReclaim, numaID>>].size
               = getNUMAsResource(asmIn.reservedForReclaim, NumasOf(asmIn, numaID))

\* the requirement of a share region handed to regulatePoolSizes
RequirementOf(pa, n) ==
    LET r == pa.regionMap[n]
    IN  IF r.numaBinding \/ ~pa.enableReclaim \/ pa.allowOverlap
        THEN Max(1, CeilCPU(r.request))
        ELSE Max(1, IntCPU(r.knob.nonReclaim))

\* the NUMA id a share region's pool is emitted at
NumaIDOf(pa, n) ==
    IF pa.regionMap[n].numaBinding THEN RegionNuma(pa.regionMap[n]) ELSE FakedNUMAID

ShareRegions(pa) == {n \in DOMAIN pa.regionMap : pa.regionMap[n].type = Share}

\* C5 (as claimed): after an assembly that produced a result, each share
\* region is marked throttled iff its pool is smaller than its requirement.
C5_ThrottledIffReduced ==
    Produced =>
        \A n \in ShareRegions(asmIn) :
            /\ n \in DOMAIN asmOut.throttled
            /\ asmOut.throttled[n]
                 <=> asmOut.entries[<<asmIn.regionMap[n].pool, NumaIDOf(asmIn, n)>>].size
                        < RequirementOf(asmIn, n)

\* the share regions regulated in one call with a share region: itself when
\* NUMA-binding, all the non-binding share regions otherwise
RegulatedWith(pa, n) ==
    IF pa.regionMap[n].numaBinding THEN {n} ELSE NonBindingShareRegions(pa)

\* the isolation sizes of the call that regulates a share region: the upper
\* bounds when they fit next to the requirements, the lower bounds otherwise
RegulatedIsolation(pa, n) ==
    LET numaID == NumaIDOf(pa, n)
        iso    == IsolationRegionsAt(pa, numaID)
        uppers == SumUpMapValues([i \in iso |-> IntCPU(pa.regionMap[i].knob.upper)])
        reqs   == SumUpMapValues([m \in RegulatedWith(pa, n) |-> RequirementOf(pa, m)])
        room   == IF numaID = FakedNUMAID THEN RegulationBudget(pa, numaID)
                  ELSE pa.numaAvailable[numaID]
                         + (IF pa.allowOverlap THEN pa.reservedForReclaim[numaID] ELSE 0)
    IN  IF reqs + uppers > room THEN IsolationLowerAt(pa, numaID) ELSE uppers

\* C5 (amended): after an assembly that produced a result, each share region
\* is marked throttled iff the requirements of the share pools regulated in
\* one call with it (its own when NUMA-binding, those of all the non-binding
\* share pools otherwise) exceed the regulation budget less the isolation
\* pools of that call.
C5_ThrottledIffOverBudget ==
    Produced =>
        \A n \in ShareRegions(asmIn) :
            /\ n \in DOMAIN asmOut.throttled
            /\ asmOut.throttled[n]
                 <=> SumUpMapValues([m \in RegulatedWith(asmIn, n) |-> RequirementOf(asmIn, m)])
                        > RegulationBudget(asmIn, NumaIDOf(asmIn, n)) - RegulatedIsolation(asmIn, n)

\* reclaim on and overlap off: a non-binding share region is throttled by the
\* policy's requirement, which its pods' requests stay below
C5_Witness ==
    /\ Produced
    /\ \E n \in NonBindingShareRegions(asmIn) :
          /\ asmOut.throttled[n]
          /\ asmIn.enableReclaim /\ ~asmIn.allowOverlap
          /\ Max(1, CeilCPU(asmIn.regionMap[n].request)) < RequirementOf(asmIn, n)

\* C6 (as claimed): the pool entries and overlap records of an assembly are
\* those of every other visiting order of the same region map.
C6_OrderIndependent ==
    asmDone =>
        \A order \in Orders(asmIn.regionMap) :
            LET other == AssembleProvision(asmIn, order)
            IN  /\ other.err = asmOut.err
                /\ other.entries = asmOut.entries
                /\ other.overlap = asmOut.overlap

\* a provision policy of the region map has failed
SomeProvisionFailed(pa) == \E n \in DOMAIN pa.regionMap : pa.regionMap[n].provErr

\* C8: when GetProvision of any region of the map fails, AssembleProvision
\* returns an error and the empty result: no pool entry and no overlap record.
C8_ProvisionErrorEmptyResult ==
    (asmDone /\ SomeProvisionFailed(asmIn)) =>
        /\ asmOut.err
        /\ asmOut.entries = EmptyMap
        /\ asmOut.overlap = EmptyMap

\* the failed region is visited last, after a NUMA-binding share region that
\* had its pools computed
C8_Witness ==
    /\ asmDone
    /\ Len(asmOrder) = 2
    /\ asmIn.regionMap[asmOrder[2]].provErr
    /\ asmIn.regionMap[asmOrder[1]].type = Share
    /\ asmIn.regionMap[asmOrder[1]].numaBinding
    /\ asmOrder[1] \in DOMAIN asmOut.throttled
    /\ asmOut.err /\ asmOut.entries = EmptyMap

-----------------------------------------------------------------------------
(* The meta-cache: the containers the pod watcher reports                  *)

QoSLevelSharedCores == "shared_cores"
QoSLevelDedicatedCores == "dedicated_cores"

\* most containers in the meta-cache at one time
MaxPods == 2

\* conf.IsolationForceEnablePools and conf.EnableShareCoresNumaBinding
IsolationForceEnablePools == {"batch"}
EnableShareCoresNumaBinding == TRUE

\* the containers that may appear: pool is OwnerPoolName and
\* OriginOwnerPoolName, numa the one key of TopologyAwareAssignments of a
\* NUMA-binding container, request and limit are CPURequest and CPULimit in
\* half-CPUs, ownRegion names the isolation or dedicated region built for it
ContainerInfo ==
    [uid \in {"p-share", "p-hot", "p-forced", "p-snb", "p-ded", "p-bad"} |->
        CASE uid = "p-share"  -> [qos |-> QoSLevelSharedCores, pool |-> "share",
                                  numa |-> FakedNUMAID, request |-> 3, limit |-> 4,
                                  ownRegion |-> "iso-share"]
          [] uid = "p-hot"    -> [qos |-> QoSLevelSharedCores, pool |-> "share",
                                  numa |-> FakedNUMAID, request |-> 4, limit |-> 8,
                                  ownRegion |-> "iso-a"]
          [] uid = "p-forced" -> [qos |-> QoSLevelSharedCores, pool |-> "batch",
                                  numa |-> FakedNUMAID, request |-> 2, limit |-> 20,
                                  ownRegion |-> "iso-b"]
          [] uid = "p-snb"    -> [qos |-> QoSLevelSharedCores, pool |-> "share-n0",
                                  numa |-> 0, request |-> 5, limit |-> 6,
                                  ownRegion |-> "iso-n0"]
          [] uid = "p-ded"    -> [qos |-> QoSLevelDedicatedCores, pool |-> "dedicated",
                                  numa |-> 1, request |-> 8, limit |-> 8,
                                  ownRegion |-> "ded-n1"]
          [] uid = "p-bad"    -> [qos |-> QoSLevelSharedCores, pool |-> "",
                                  numa |-> 0, request |-> 2, limit |-> 2,
                                  ownRegion |-> "iso-bad"]]

PodUIDs == DOMAIN ContainerInfo

\* the pods the isolator may report: GetIsolatedPods
IsolatorCandidates == {"p-hot", "p-snb"}

\* ci.IsNumaBinding
IsNumaBinding(ci) == ci.numa # FakedNUMAID

-----------------------------------------------------------------------------
(* cpuResourceAdvisor: assigning containers to regions                     *)

\* a region as its constructor leaves it: no container, the provision policy
\* not updated yet
NewQoSRegion(name, type, ci) ==
    [Region(name, type, IsNumaBinding(ci),
            IF IsNumaBinding(ci) THEN {ci.numa} ELSE {}, ci.pool)
        EXCEPT !.provErr = TRUE]

\* a region of the map by its name and type, or a new one
ReuseOrNew(rm, name, type, ci) ==
    IF name \in DOMAIN rm /\ rm[name].type = type THEN rm[name]
    ELSE NewQoSRegion(name, type, ci)

\* the region of a shared_cores container: err, or nil, or one region
assignShareContainerToRegions(rm, ci, isolated) ==
    IF EnableShareCoresNumaBinding /\ IsNumaBinding(ci) /\ ci.pool = ""
    THEN [err |-> TRUE, nil |-> TRUE, region |-> Region("", Share, FALSE, {}, "")]
    ELSE IF ~(EnableShareCoresNumaBinding /\ IsNumaBinding(ci)) /\ ci.pool = ""
    THEN [err |-> FALSE, nil |-> TRUE, region |-> Region("", Share, FALSE, {}, "")]
    ELSE IF isolated \/ ci.pool \in IsolationForceEnablePools
    THEN [err |-> FALSE, nil |-> FALSE,
          region |-> ReuseOrNew(rm, ci.ownRegion, Isolation, ci)]
    ELSE [err |-> FALSE, nil |-> FALSE, region |-> ReuseOrNew(rm, ci.pool, Share, ci)]

\* the region of a dedicated_cores container, one NUMA in its assignments
assignDedicatedContainerToRegions(rm, ci) ==
    [err |-> FALSE, nil |-> FALSE,
     region |-> ReuseOrNew(rm, ci.ownRegion, DedicatedNumaExclusive, ci)]

assignToRegions(rm, ci, isolated) ==
    IF ci.qos = QoSLevelSharedCores THEN assignShareContainerToRegions(rm, ci, isolated)
    ELSE IF ci.qos = QoSLevelDedicatedCores THEN assignDedicatedContainerToRegions(rm, ci)
    ELSE [err |-> FALSE, nil |-> TRUE, region |-> Region("", Share, FALSE, {}, "")]

\* region.Clear and region.AddContainer
Clear(r) == [r EXCEPT !.pods = {}, !.request = 0]
AddContainer(r, uid, ci) ==
    [r EXCEPT !.pods = @ \cup {uid}, !.request = @ + ci.request]

RECURSIVE SyncContainers(_, _, _, _)
\* metaCache.RangeAndUpdateContainer(f): the callback f over the containers
SyncContainers(rm, cs, todo, err) ==
    IF todo = {} THEN [err |-> err, regionMap |-> rm]
    ELSE LET uid == CHOOSE u \in todo : TRUE
             a   == assignToRegions(rm, ContainerInfo[uid], cs[uid].isolated)
         IN  SyncContainers(
                 IF a.nil THEN rm
                 ELSE Put(rm, a.region.name, AddContainer(a.region, uid, ContainerInfo[uid])),
                 cs, todo \ {uid}, err \/ a.err)

assignContainersToRegions(rm, cs) ==
    SyncContainers([n \in DOMAIN rm |-> Clear(rm[n])], cs, DOMAIN cs, FALSE)

\* gcRegionMap: delete the empty regions
gcRegionMap(rm) ==
    [n \in {x \in DOMAIN rm : rm[x].pods # {}} |-> rm[n]]

checkIsolationSafety_Unchecked(rm, nonBinding) == TRUE

\* checkIsolationSafety: the share regions' requirements and the isolated
\* pods' limits fit the CPUs of the non-binding NUMAs
checkIsolationSafety(rm, nonBinding) ==
    LET shares    == {n \in DOMAIN rm : rm[n].type = Share}
        isolated  == UNION {rm[n].pods : n \in {x \in DOMAIN rm : rm[x].type = Isolation}}
        shareSize == SumUpMapValues([n \in shares |-> IntCPU(rm[n].knob.nonReclaim)])
        limitSize == SumUpMapValues([u \in isolated |-> IntCPU(ContainerInfo[u].limit)])
    IN  /\ \A n \in shares : ~rm[n].provErr
        /\ shareSize + limitSize <= CPUsPerNuma * Cardinality(nonBinding)

-----------------------------------------------------------------------------
(* cpuResourceAdvisor: the region policies                                 *)

\* the ticks of one run of the advisor
MaxTicks == 2

\* the loads the policies of a tick may observe
MaxLoad == 2

\* the control knob a provision policy reports for a region under a load: a
\* share or dedicated region asks for its pods' requests and more under load,
\* an isolation region is bounded by its pods' limits and requests
PolicyKnob(r, load) ==
    IF r.type = Isolation
    THEN Knob(0, SumUpMapValues([u \in r.pods |-> ContainerInfo[u].limit]), r.request, FALSE, 0)
    ELSE Knob(r.request + 4 * (load - 1), 0, 0, FALSE, 0)

\* region.TryUpdateProvision: the policy's knob, or a failed update
TryUpdateProvision(r, load, failed) ==
    IF failed THEN [r EXCEPT !.provErr = TRUE]
    ELSE [r EXCEPT !.provErr = FALSE, !.knob = PolicyKnob(r, load)]

-----------------------------------------------------------------------------
(* cpuResourceAdvisor: one tick of UpdateAndGetAdvice, and GetHeadroom     *)

\* the errors of updateWithIsolationGuardian
ErrNone == "none"
ErrReservePool == "reserve pool does not exist"
ErrAssign == "failed to assign containers to regions"
errIsolationSafetyCheckFailed == "isolation safety check failed"
ErrAssemble == "failed to assemble provisioner"

Failure(err) == [err |-> err, nil |-> TRUE, entries |-> EmptyMap, overlap |-> EmptyMap]

\* what the provision assembler reads through its pointers
Assembler ==
    [regionMap          |-> regionMap,
     reservedForReclaim |-> [n \in Numas |-> ReclaimReserve],
     numaAvailable      |-> numaAvailable,
     nonBindingNumas    |-> nonBindingNumas,
     allowOverlap       |-> conf.allowOverlap,
     enableReclaim      |-> conf.enableReclaim,
     cgroup2            |-> conf.cgroup2,
     reservePoolSize    |-> ReservePoolSize]

setIsolatedContainers_Always(cs, enableIsolated, isolatedPods) ==
    [u \in DOMAIN cs |-> [cs[u] EXCEPT !.isolated = u \in isolatedPods]]

\* setIsolatedContainers: the isolator's pods are marked when isolation is on
setIsolatedContainers(cs, enableIsolated, isolatedPods) ==
    [u \in DOMAIN cs |-> [cs[u] EXCEPT !.isolated = enableIsolated /\ u \in isolatedPods]]

\* the pod watcher adds a container to the meta-cache, between two ticks
ContainerAdded ==
    /\ pc = "idle"
    /\ Cardinality(DOMAIN containers) < MaxPods
    /\ \E uid \in PodUIDs \ DOMAIN containers :
          containers' = Put(containers, uid, [isolated |-> FALSE])
    /\ UNCHANGED <<reservePoolExists, conf, craVars, tickVars, mutex, healthzCheckMap,
                   readerPc, atLock, prevOk, ticks, asmVars, aswVars, hzVars, memVars, extVars>>

\* the pod watcher removes a container
ContainerRemoved ==
    /\ pc = "idle"
    /\ \E uid \in DOMAIN containers :
          containers' = [u \in DOMAIN containers \ {uid} |-> containers[u]]
    /\ UNCHANGED <<reservePoolExists, conf, craVars, tickVars, mutex, healthzCheckMap,
                   readerPc, atLock, prevOk, ticks, asmVars, aswVars, hzVars, memVars, extVars>>

\* the cpu plugin reports the reserve pool
ReservePoolCreated ==
    /\ pc = "idle"
    /\ ~reservePoolExists
    /\ reservePoolExists' = TRUE
    /\ UNCHANGED <<containers, conf, craVars, tickVars, mutex, healthzCheckMap,
                   readerPc, atLock, prevOk, ticks, asmVars, aswVars, hzVars, memVars, extVars>>

\* update: cra.mutex.Lock() and the first updateWithIsolationGuardian(true)
UpdateLock ==
    /\ pc = "idle"
    /\ ticks < MaxTicks
    /\ ticks' = ticks + 1
    /\ ~mutex.writer /\ mutex.readers = 0
    /\ mutex' = [mutex EXCEPT !.writer = TRUE]
    /\ pc' = "guardian"
    /\ pass' = 1
    /\ tryIsolation' = TRUE
    /\ isolationExists' = FALSE
    /\ passErrs' = <<>>
    /\ atLock' = AdvisorState
    /\ UNCHANGED <<metaVars, craVars, result, healthzCheckMap, readerPc, prevOk,
                   asmVars, aswVars, hzVars, memVars, extVars>>

\* updateWithIsolationGuardian: the reserve pool check,
\* updateNumasAvailableResource and setIsolatedContainers
GuardianStart ==
    /\ pc = "guardian"
    /\ IF ~reservePoolExists
       THEN /\ passErrs' = Append(passErrs, ErrReservePool)
            /\ result' = Failure(ErrReservePool)
            /\ pc' = "returned"
            /\ UNCHANGED <<containers, numaAvailable, isolationExists>>
       ELSE /\ numaAvailable' = NumaAvailableOf(ReservePoolSize)
            /\ \E isolatedPods \in SUBSET (IsolatorCandidates \cap DOMAIN containers) :
                  /\ containers' = setIsolatedContainers(containers, tryIsolation, isolatedPods)
                  /\ isolationExists' = (tryIsolation /\ isolatedPods # {})
            /\ pc' = "assign"
            /\ UNCHANGED <<passErrs, result>>
    /\ UNCHANGED <<reservePoolExists, conf, regionMap, nonBindingNumas, advisorUpdated,
                   pass, tryIsolation, mutex, healthzCheckMap, readerPc, atLock, prevOk, ticks,
                   asmVars, aswVars, hzVars, memVars, extVars>>

\* updateWithIsolationGuardian: assignContainersToRegions, then gcRegionMap
\* and updateAdvisorEssentials when no container failed
AssignContainers ==
    /\ pc = "assign"
    /\ LET a  == assignContainersToRegions(regionMap, containers)
           gc == gcRegionMap(a.regionMap)
       IN  IF a.err
           THEN /\ regionMap' = a.regionMap
                /\ passErrs' = Append(passErrs, ErrAssign)
                /\ result' = Failure(ErrAssign)
                /\ pc' = "returned"
                /\ UNCHANGED nonBindingNumas
           ELSE /\ regionMap' = WithBindingNumas(gc)
                /\ nonBindingNumas' = NonBindingNumasOf(gc)
                /\ pc' = "policies"
                /\ UNCHANGED <<passErrs, result>>
    /\ UNCHANGED <<metaVars, numaAvailable, advisorUpdated, pass, tryIsolation,
                   isolationExists, mutex, healthzCheckMap, readerPc, atLock, prevOk, ticks,
                   asmVars, aswVars, hzVars, memVars, extVars>>

\* updateWithIsolationGuardian: the isolation safety check, then an episode of
\* the policies of every region
UpdatePolicies ==
    /\ pc = "policies"
    /\ IF tryIsolation /\ isolationExists /\ ~checkIsolationSafety(regionMap, nonBindingNumas)
       THEN /\ passErrs' = Append(passErrs, errIsolationSafetyCheckFailed)
            /\ result' = Failure(errIsolationSafetyCheckFailed)
            /\ pc' = "returned"
            /\ UNCHANGED <<regionMap, advisorUpdated>>
       ELSE /\ \E load \in 1..MaxLoad, failed \in DOMAIN regionMap \cup {"none"} :
                  regionMap' = [n \in DOMAIN regionMap |->
                                   TryUpdateProvision(regionMap[n], load, n = failed)]
            /\ advisorUpdated' = TRUE
            /\ pc' = "assemble"
            /\ UNCHANGED <<passErrs, result>>
    /\ UNCHANGED <<metaVars, numaAvailable, nonBindingNumas, pass, tryIsolation,
                   isolationExists, mutex, healthzCheckMap, readerPc, atLock, prevOk, ticks,
                   asmVars, aswVars, hzVars, memVars, extVars>>

\* what updateWithIsolationGuardian returns after assembleProvision
adviceOf(out) ==
    IF out.err THEN Failure(ErrAssemble)
    ELSE [err |-> ErrNone, nil |-> FALSE, entries |-> out.entries, overlap |-> out.overlap]

\* updateWithIsolationGuardian: assembleProvision, in the order the region map
\* is ranged over
AssembleAdvice ==
    /\ pc = "assemble"
    /\ \E order \in Orders(regionMap) :
          result' = adviceOf(AssembleProvision(Assembler, order))
    /\ passErrs' = Append(passErrs, result'.err)
    /\ pc' = "returned"
    /\ UNCHANGED <<metaVars, craVars, pass, tryIsolation, isolationExists, mutex,
                   healthzCheckMap, readerPc, atLock, prevOk, ticks, asmVars, aswVars, hzVars, memVars, extVars>>

retryWithoutIsolation_Always(passNo, err) == err # ErrNone

\* update: the first pass failed with errIsolationSafetyCheckFailed
retryWithoutIsolation(passNo, err) ==
    passNo = 1 /\ err = errIsolationSafetyCheckFailed

\* update: a pass has returned; run updateWithIsolationGuardian(false) after a
\* failed safety check, return the outcome otherwise
UpdateReturned ==
    /\ pc = "returned"
    /\ IF retryWithoutIsolation(pass, passErrs[Len(passErrs)])
       THEN /\ pc' = "guardian"
            /\ pass' = pass + 1
            /\ tryIsolation' = FALSE
       ELSE /\ pc' = "unlock"
            /\ UNCHANGED <<pass, tryIsolation>>
    /\ UNCHANGED <<metaVars, craVars, isolationExists, passErrs, result, mutex,
                   healthzCheckMap, readerPc, atLock, prevOk, ticks, asmVars, aswVars, hzVars, memVars, extVars>>

\* update: the deferred cra.mutex.Unlock()
UpdateUnlock ==
    /\ pc = "unlock"
    /\ mutex' = [mutex EXCEPT !.writer = FALSE]
    /\ pc' = "healthz"
    /\ tickSucceeded' = (tickSucceeded \/ result.err = ErrNone)
    /\ UNCHANGED <<metaVars, craVars, pass, tryIsolation, isolationExists, passErrs,
                   result, healthzCheckMap, readerPc, atLock, prevOk, ticks, asmVars, aswVars,
                   hzVars, memVars, ckVars, rgVars, secondVars, csVars, crVars, rpVars>>

\* general.UpdateHealthzState: the state of a registered check
UpdateHealthzState(checks, name, state) ==
    IF name \notin DOMAIN checks THEN checks
    ELSE [checks EXCEPT ![name].State = state]

\* general.UpdateHealthzStateByError
UpdateHealthzStateByError(checks, name, err) ==
    IF err # ErrNone THEN UpdateHealthzState(checks, name, HealthzCheckStateNotReady)
    ELSE UpdateHealthzState(checks, name, HealthzCheckStateReady)

\* UpdateAndGetAdvice: the health state follows the error of update, and the
\* call returns: its locals are gone
UpdateHealthz ==
    /\ pc = "healthz"
    /\ healthzCheckMap' = UpdateHealthzStateByError(healthzCheckMap,
                                                    cpuAdvisorHealthCheckName, result.err)
    /\ pc' = "idle"
    /\ pass' = 0
    /\ tryIsolation' = FALSE
    /\ isolationExists' = FALSE
    /\ passErrs' = <<>>
    /\ result' = NoAdvice
    /\ atLock' = NoSnapshot
    /\ prevOk' = (result.err = ErrNone)
    /\ UNCHANGED <<metaVars, craVars, mutex, readerPc, ticks, asmVars, aswVars, hzVars, memVars, extVars>>

GetHeadroomRLock_NoLock ==
    /\ readerPc = "idle"
    /\ mutex' = [mutex EXCEPT !.readers = @ + 1]
    /\ readerPc' = "locked"
    /\ UNCHANGED <<metaVars, craVars, tickVars, healthzCheckMap, atLock, prevOk, ticks, asmVars, aswVars, hzVars, memVars, extVars>>

\* GetHeadroom: cra.mutex.RLock()
GetHeadroomRLock ==
    /\ readerPc = "idle"
    /\ ~mutex.writer
    /\ mutex' = [mutex EXCEPT !.readers = @ + 1]
    /\ readerPc' = "locked"
    /\ UNCHANGED <<metaVars, craVars, tickVars, healthzCheckMap, atLock, prevOk, ticks, asmVars, aswVars, hzVars, memVars, extVars>>

\* GetHeadroom: the headroom, or "advisor not updated", and the deferred RUnlock
GetHeadroomReturn ==
    /\ readerPc = "locked"
    /\ mutex' = [mutex EXCEPT !.readers = @ - 1]
    /\ readerPc' = "idle"
    /\ UNCHANGED <<metaVars, craVars, tickVars, healthzCheckMap, atLock, prevOk, ticks, asmVars, aswVars, hzVars, memVars, extVars>>

Init ==
    /\ NewCPUResourceAdvisor
    /\ \E ov \in BOOLEAN, er \in BOOLEAN : EmptyMetaCache(ov, er, FALSE)
    /\ NewAsyncWorkers
    /\ NewHealthzCheckMap
    /\ NoPolicy
    /\ ExtInit
    /\ NoAssembly

Next ==
    \/ ContainerAdded
    \/ ContainerRemoved
    \/ ReservePoolCreated
    \/ UpdateLock
    \/ GuardianStart
    \/ AssignContainers
    \/ UpdatePolicies
    \/ AssembleAdvice
    \/ UpdateReturned
    \/ UpdateUnlock
    \/ UpdateHealthz
    \/ GetHeadroomRLock
    \/ GetHeadroomReturn

Spec == Init /\ [][Next]_vars

-----------------------------------------------------------------------------
(* Properties of a tick of the advisor                                     *)

\* update has returned and UpdateAndGetAdvice has not yet looked at the error
UpdateDone == pc = "unlock"

\* the share and isolation pools of the advice, at every NUMA id
ShareAndIsolationPools(advice) ==
    {k \in DOMAIN advice.entries : k[1] \notin {PoolNameReclaim, PoolNameReserve}}

\* C2: after a tick whose update returns a result without error, the share
\* and isolation pool sizes of the result sum to at most the CPUs of the
\* non-binding NUMAs
C2_IsolationSafety ==
    (UpdateDone /\ result.err = ErrNone) =>
        SizeSum(result, ShareAndIsolationPools(result))
            <= CPUsPerNuma * Cardinality(nonBindingNumas)

\* the positions of update from cra.mutex.Lock() to the deferred Unlock
InUpdate == pc \in {"guardian", "assign", "policies", "assemble", "returned", "unlock"}

\* the positions of a pass after setIsolatedContainers
AfterSetIsolated == pc \in {"assign", "policies", "assemble", "returned"}

\* C3: in one call of update, updateWithIsolationGuardian runs at most twice;
\* the second pass follows a first pass that failed the isolation safety
\* check, runs with isolation disabled so that no container is marked
\* isolated, and its outcome is what update returns
C3_SingleRetry ==
    /\ pass \in 0..2
    /\ Len(passErrs) <= pass
    /\ pass = 2 =>
          /\ passErrs[1] = errIsolationSafetyCheckFailed
          /\ ~tryIsolation
          /\ AfterSetIsolated => \A u \in DOMAIN containers : ~containers[u].isolated
          /\ UpdateDone => Len(passErrs) = 2 /\ result.err = passErrs[2]
    /\ (UpdateDone /\ pass = 1) =>
          Len(passErrs) = 1 /\ passErrs[1] # errIsolationSafetyCheckFailed

\* the retry pass has run with a pod the isolator reports in the meta-cache,
\* and update returns its advice
C3_Witness ==
    /\ UpdateDone /\ pass = 2
    /\ result.err = ErrNone
    /\ "p-hot" \in DOMAIN containers

\* the errors of a tick aborted for its data
DataErrors == {ErrReservePool, ErrAssign}

\* C7: a tick aborted by a data error returns an error and no result, and
\* leaves regionMap with its regions' members, numaAvailable and
\* nonBindingNumas as the last successful tick left them
C7_DataErrorKeepsState ==
    (UpdateDone /\ prevOk /\ result.err \in DataErrors) =>
        /\ result.nil
        /\ AdvisorState = atLock

\* C9: update holds the write lock from the start of a tick to its end, and
\* GetHeadroom holds the read lock only while no tick is between its start and
\* its end, so that it reads no state from the middle of a tick
C9_TickExcludesReaders ==
    /\ InUpdate => mutex.writer /\ mutex.readers = 0
    /\ readerPc = "locked" => ~mutex.writer /\ mutex.readers = 1 /\ ~InUpdate

\* GetHeadroom holds the read lock between two ticks, after a tick with a
\* retry pass has updated the advisor
C9_Witness ==
    /\ readerPc = "locked"
    /\ advisorUpdated
    /\ ticks >= 1
    /\ DOMAIN regionMap # {}

\* what the GetHeadroom call that holds the read lock returns first of all:
\* the error "advisor not updated" when cra.advisorUpdated is not set
GetHeadroomNotUpdated == readerPc = "locked" /\ ~advisorUpdated

\* C38: GetHeadroom fails with "advisor not updated" in every state in which
\* no tick has yet returned a result without error, and advisorUpdated, once
\* set, is never false again
C38_NotUpdatedUntilTickSucceeds ==
    /\ []((readerPc = "locked" /\ ~tickSucceeded) => GetHeadroomNotUpdated)
    /\ [][advisorUpdated => advisorUpdated']_vars

\* advisorUpdated is set by no step before the policies of a pass have run,
\* and by no step reset
AdvisorUpdatedStays ==
    [][/\ advisorUpdated => advisorUpdated'
       /\ (~advisorUpdated /\ advisorUpdated') => (pc = "policies" /\ pc' = "assemble")]_vars

-----------------------------------------------------------------------------
(* AsyncWorkers: one worker per work name, and one slot per name for the   *)
(* work that arrived while the worker was busy. A work is identified by    *)
(* the position of its AddWork call.                                       *)

\* the AddWork calls of one run, and the names they use
MaxWorks == 5
WorkNames == {"work1", "work2"}

\* asw.workStatuses[name].working
Working(name) == name \in DOMAIN workStatuses /\ workStatuses[name].working

\* asw.lastUndeliveredWork[name], nil when no work waits
PendingWork(name) ==
    IF name \in DOMAIN lastUndeliveredWork THEN lastUndeliveredWork[name] ELSE NoWork

undelivered_KeepFirst(pending, name, work) ==
    IF name \in DOMAIN pending THEN pending ELSE Put(pending, name, work)

\* AddWork on a busy name: the work takes the slot of the name, whatever
\* waited there
undelivered(pending, name, work) == Put(pending, name, work)

statusOfBusy_Restart(statuses, name, work) ==
    Put(statuses, name, [working |-> TRUE, work |-> work])

\* AddWork on a busy name: the status of the name, with its running work, is
\* left as it is
statusOfBusy(statuses, name, work) == statuses

\* AddWork(name, work): the work starts when the name is idle, and waits in
\* lastUndeliveredWork otherwise; at is the number of AddWork calls made when
\* the work starts
AddWork ==
    /\ Len(submitted) < MaxWorks
    /\ \E name \in WorkNames :
          LET work == Len(submitted) + 1
          IN  IF Working(name)
              THEN /\ lastUndeliveredWork' = undelivered(lastUndeliveredWork, name, work)
                   /\ submitted' = Append(submitted, [name |-> name, queued |-> TRUE])
                   /\ workStatuses' = statusOfBusy(workStatuses, name, work)
                   /\ UNCHANGED executed
              ELSE /\ workStatuses' = Put(workStatuses, name,
                                          [working |-> TRUE, work |-> work])
                   /\ executed' = Append(executed,
                                         [work |-> work, name |-> name, at |-> work])
                   /\ submitted' = Append(submitted, [name |-> name, queued |-> FALSE])
                   /\ UNCHANGED lastUndeliveredWork
    /\ UNCHANGED <<finished, asmVars, advVars, hzVars, memVars, extVars>>

hasUndelivered_Never(name) == FALSE

\* handleWork: a work waits in lastUndeliveredWork for the name
hasUndelivered(name) == PendingWork(name) # NoWork

\* the worker of a name when the Fn of its work returns: it runs the work
\* that waits for the name, or stops working
WorkFinishedOf(name) ==
    /\ Working(name)
    /\ finished' = finished \cup {workStatuses[name].work}
    /\ IF hasUndelivered(name)
       THEN /\ workStatuses' = [workStatuses EXCEPT ![name].work = PendingWork(name)]
            /\ executed' = Append(executed,
                                  [work |-> PendingWork(name), name |-> name,
                                   at |-> Len(submitted)])
            /\ lastUndeliveredWork' =
                  [n \in DOMAIN lastUndeliveredWork \ {name} |-> lastUndeliveredWork[n]]
       ELSE /\ workStatuses' = [workStatuses EXCEPT ![name].working = FALSE]
            /\ UNCHANGED <<executed, lastUndeliveredWork>>
    /\ UNCHANGED <<submitted, asmVars, advVars, hzVars, memVars, extVars>>

WorkFinished == \E name \in WorkNames : WorkFinishedOf(name)

AswInit ==
    /\ NewAsyncWorkers
    /\ NewHealthzCheckMap
    /\ NoPolicy
    /\ ExtInit
    /\ NewCPUResourceAdvisor
    /\ EmptyMetaCache(FALSE, FALSE, FALSE)
    /\ NoAssembly

AswNext == AddWork \/ WorkFinished

AswSpec == AswInit /\ [][AswNext]_vars

\* every worker is a goroutine of its own: the Fn of a running work returns
AswFairSpec ==
    AswInit /\ [][AswNext]_vars /\ \A name \in WorkNames : WF_vars(WorkFinishedOf(name))

\* the works that have been run, or are running
WorksRun == {executed[i].work : i \in DOMAIN executed}

\* a work of the name has started between the AddWork calls j and k
StartedBetween(name, j, k) ==
    \E i \in DOMAIN executed :
        executed[i].name = name /\ j <= executed[i].at /\ executed[i].at < k

\* the work of call j waited for its name, and still waited when call k
\* brought another work for the name
OverwrittenBy(j, k) ==
    /\ j < k
    /\ submitted[j].queued
    /\ submitted[k].name = submitted[j].name
    /\ ~StartedBetween(submitted[j].name, j, k)

Overwritten(j) == \E k \in DOMAIN submitted : OverwrittenBy(j, k)

\* the latest AddWork call of a name
LastSubmitted(name) ==
    CHOOSE j \in DOMAIN submitted :
        /\ submitted[j].name = name
        /\ \A k \in DOMAIN submitted : submitted[k].name = name => k <= j

\* C10: when work B arrives for a name whose work A is running and work C
\* arrives for the name before A finishes, B is never run, C is run exactly
\* once after A finishes, and lastUndeliveredWork of the name holds only the
\* most recently submitted work
C10_LastUndeliveredWins ==
    /\ \A j \in DOMAIN submitted : Overwritten(j) => j \notin WorksRun
    /\ \A a, b \in DOMAIN executed : executed[a].work = executed[b].work => a = b
    /\ \A name \in WorkNames :
          PendingWork(name) # NoWork => PendingWork(name) = LastSubmitted(name)
    /\ \A j \in DOMAIN submitted :
          (~Overwritten(j) /\ PendingWork(submitted[j].name) # j) => j \in WorksRun

\* B and then C arrived while A was running, A has finished and C has run
C10_Witness ==
    \E j, k \in DOMAIN submitted :
        /\ OverwrittenBy(j, k)
        /\ submitted[k].queued
        /\ k \in WorksRun
        /\ j \notin WorksRun

\* the work of call j waits for its name
Waits(j) == j \in DOMAIN submitted /\ PendingWork(submitted[j].name) = j

\* the runs of the work of call j
RunsOf(j) == {i \in DOMAIN executed : executed[i].work = j}

\* C11: a work B that arrives for a name whose work A is running is
\* eventually started after A finishes, unless a later work for the name
\* takes its place, and no work is ever run twice
C11_PendingEventuallyRuns ==
    /\ \A j \in 1..MaxWorks :
          Waits(j) ~> ((j \in DOMAIN submitted /\ Overwritten(j)) \/ Cardinality(RunsOf(j)) = 1)
    /\ [](\A j \in DOMAIN submitted : Cardinality(RunsOf(j)) <= 1)

\* B arrived while A was running, no later work came for the name, A has
\* finished and B has been run once
C11_Witness ==
    \E j \in DOMAIN submitted :
        /\ submitted[j].queued
        /\ j = LastSubmitted(submitted[j].name)
        /\ Cardinality(RunsOf(j)) = 1

\* the works of a name whose Fn is running
Running(name) ==
    {executed[i].work : i \in {x \in DOMAIN executed : executed[x].name = name}} \ finished

\* an AddWork(name, work) step
AddWorkStep(name) ==
    /\ Len(submitted') = Len(submitted) + 1
    /\ submitted'[Len(submitted')].name = name

\* C12: AddWork on a name with a running work leaves that work running, not
\* cancelled and not restarted; AddWork on a name with no running work starts
\* the work at once and leaves lastUndeliveredWork of the name empty; at most
\* one work of a name runs at a time
C12_NeverPreempted ==
    /\ [](\A name \in WorkNames :
            /\ Cardinality(Running(name)) <= 1
            /\ Working(name) <=> Running(name) # {})
    /\ [][\A name \in WorkNames :
            AddWorkStep(name) =>
                IF Working(name)
                THEN /\ Running(name)' = Running(name)
                     /\ workStatuses'[name] = workStatuses[name]
                     /\ executed' = executed
                ELSE /\ Running(name)' = {Len(submitted')}
                     /\ PendingWork(name)' = NoWork]_vars

\* a work arrived for a busy name and waits, and the work that was running
\* when it arrived is still running
C12_Witness ==
    \E name \in WorkNames :
        /\ Working(name)
        /\ PendingWork(name) # NoWork
        /\ Running(name) = {workStatuses[name].work}
        /\ workStatuses[name].work < PendingWork(name)

\* ---------------------------------------------------------------------------
\* The health check registry: heartbeat and report checks read against a clock
\* ---------------------------------------------------------------------------

MaxTime == 6
MaxPeriod == 2
MaxRegistrations == 3

CheckNames == {"check"}
Periods == 0..MaxPeriod
HealthzCheckStates == {"Ready", "NotReady", "Unknown", "Failed"}

\* t.Sub(u): the duration from u to t; from the zero time it is the largest
\* Duration, which exceeds every period
Sub(t, u) == IF u = ZeroTime THEN MaxTime + MaxPeriod + 1 ELSE t - u

\* healthzCheckStatus.update
update(h, state, message, t) ==
    [h EXCEPT !.Message = message,
              !.LastUpdateTime = t,
              !.UnhealthyStartTime = IF h.State = "Ready" /\ state # "Ready" THEN t ELSE @,
              !.State = state]

\* the healthzCheckStatus the Register functions build
NewStatus(initState, lastUpdate, timeout, toleration, mode, temporary, count) ==
    [State |-> initState, Message |-> "Init", LastUpdateTime |-> lastUpdate,
     Mode |-> mode, TimeoutPeriod |-> timeout, UnhealthyStartTime |-> ZeroTime,
     TolerationPeriod |-> toleration, temporary |-> temporary, count |-> count]

\* what is recorded of a check: when it was registered or last updated,
\* whether it was updated, when an update moved it from Ready to another
\* state, when a state other than Ready was last reported, and the calls of
\* RegisterTemporaryHeartbeatCheck and UnregisterTemporaryHeartbeatCheck
NewHist ==
    [touched |-> now, updated |-> FALSE, unreadyAt |-> ZeroTime,
     failedAt |-> ZeroTime, regs |-> 0, unregs |-> 0]

Remove(f, k) == [x \in DOMAIN f \ {k} |-> f[x]]

hzRest == <<asmVars, advVars, aswVars, memVars, extVars>>

RegisterHeartbeatCheck ==
    \E name \in CheckNames :
        /\ IF name \in DOMAIN registry
           THEN UNCHANGED <<registry, hzHist>>
           ELSE \E timeout \in Periods, initState \in HealthzCheckStates,
                   tolerationPeriod \in Periods :
                    /\ registry' = Put(registry, name,
                                       NewStatus(initState, now, timeout, tolerationPeriod,
                                                 "heartbeat", FALSE, 0))
                    /\ hzHist' = Put(hzHist, name, NewHist)
        /\ UNCHANGED <<now, results, hzRest>>

\* RegisterTemporaryHeartbeatCheck of a name that holds a temporary check
registerAgain(h, t) == [h EXCEPT !.count = @ + 1]

RegisterTemporaryHeartbeatCheck ==
    \E name \in CheckNames :
        /\ IF name \in DOMAIN registry
           THEN IF ~registry[name].temporary
                THEN UNCHANGED <<registry, hzHist>>
                ELSE /\ hzHist[name].regs < MaxRegistrations
                     /\ registry' = [registry EXCEPT ![name] = registerAgain(@, now)]
                     /\ hzHist' = [hzHist EXCEPT ![name].regs = @ + 1]
           ELSE \E timeout \in Periods, initState \in HealthzCheckStates,
                   tolerationPeriod \in Periods :
                    /\ registry' = Put(registry, name,
                                       NewStatus(initState, now, timeout, tolerationPeriod,
                                                 "heartbeat", TRUE, 1))
                    /\ hzHist' = Put(hzHist, name, [NewHist EXCEPT !.regs = 1])
        /\ UNCHANGED <<now, results, hzRest>>

RegisterReportCheck ==
    \E name \in CheckNames :
        /\ IF name \in DOMAIN registry
           THEN UNCHANGED <<registry, hzHist>>
           ELSE \E timeout \in Periods, initState \in HealthzCheckStates :
                    /\ registry' = Put(registry, name,
                                       NewStatus(initState, ZeroTime, timeout, 0,
                                                 "report", FALSE, 0))
                    /\ hzHist' = Put(hzHist, name, NewHist)
        /\ UNCHANGED <<now, results, hzRest>>

lastUnregister_Always(h) == TRUE

\* unregisterHealthCheck: the call that brings count to zero deletes the check
lastUnregister(h) == h.count - 1 = 0

\* unregisterHealthCheck(name, mode)
unregisterHealthCheck(name, mode) ==
    IF name \notin DOMAIN registry
    THEN UNCHANGED <<registry, hzHist>>
    ELSE IF ~registry[name].temporary \/ registry[name].Mode # mode
         THEN UNCHANGED <<registry, hzHist>>
         ELSE IF lastUnregister(registry[name])
              THEN /\ registry' = Remove(registry, name)
                   /\ hzHist' = Remove(hzHist, name)
              ELSE /\ registry' = [registry EXCEPT ![name].count = @ - 1]
                   /\ hzHist' = [hzHist EXCEPT ![name].unregs = @ + 1]

UnregisterTemporaryHeartbeatCheck ==
    \E name \in CheckNames :
        /\ unregisterHealthCheck(name, "heartbeat")
        /\ UNCHANGED <<now, results, hzRest>>

\* UpdateHealthzState(name, state, message); an unknown name is an error and
\* changes nothing
UpdateHealthzStateOf(name, state, message) ==
    /\ IF name \notin DOMAIN registry
       THEN UNCHANGED <<registry, hzHist>>
       ELSE /\ registry' = [registry EXCEPT ![name] = update(@, state, message, now)]
            /\ hzHist' = [hzHist EXCEPT
                   ![name].touched = now,
                   ![name].updated = TRUE,
                   ![name].unreadyAt =
                       IF registry[name].State = "Ready" /\ state # "Ready" THEN now ELSE @,
                   ![name].failedAt = IF state # "Ready" THEN now ELSE @]
    /\ UNCHANGED <<now, results, hzRest>>

CallUpdateHealthzState ==
    \E name \in CheckNames, state \in HealthzCheckStates :
        UpdateHealthzStateOf(name, state, IF state = "Ready" THEN "" ELSE "error")

\* UpdateHealthzStateByError(name, err)
CallUpdateHealthzStateByError ==
    \E name \in CheckNames, err \in {"nil", "error"} :
        IF err # "nil"
        THEN UpdateHealthzStateOf(name, "NotReady", err)
        ELSE UpdateHealthzStateOf(name, "Ready", "")

heartbeatTimedOut_Never(h, t) == FALSE

\* heartbeat mode: the status has not been updated for more than TimeoutPeriod
heartbeatTimedOut(h, t) ==
    h.TimeoutPeriod > 0 /\ Sub(t, h.LastUpdateTime) > h.TimeoutPeriod

intolerable_FromLastUpdate(h, t) ==
    \/ h.TolerationPeriod <= 0 /\ h.State # "Ready"
    \/ /\ h.TolerationPeriod > 0
       /\ Sub(t, h.LastUpdateTime) > h.TolerationPeriod
       /\ h.State # "Ready"

\* heartbeat mode: the state is not Ready and is not, or no longer, tolerated
intolerable(h, t) ==
    \/ h.TolerationPeriod <= 0 /\ h.State # "Ready"
    \/ /\ h.TolerationPeriod > 0
       /\ Sub(t, h.UnhealthyStartTime) > h.TolerationPeriod
       /\ h.State # "Ready"

reportTimedOut_Never(h, t) == FALSE

\* report mode: the last update is older than TimeoutPeriod
reportTimedOut(h, t) ==
    /\ h.TimeoutPeriod > 0
    /\ h.LastUpdateTime # ZeroTime
    /\ h.LastUpdateTime < t - h.TimeoutPeriod

\* the HealthzCheckResult of one check at time t
checkResult(h, t) ==
    IF h.Mode = "heartbeat"
    THEN [Ready |-> ~heartbeatTimedOut(h, t) /\ ~intolerable(h, t),
          Message |-> IF heartbeatTimedOut(h, t) THEN "not updated" ELSE h.Message]
    ELSE [Ready |-> h.State = "Ready" /\ ~reportTimedOut(h, t),
          Message |-> IF reportTimedOut(h, t) THEN "timeout" ELSE h.Message]

\* what GetRegisterReadinessCheckResult returns when called now
ReadinessCheckResult == [name \in DOMAIN registry |-> checkResult(registry[name], now)]

GetRegisterReadinessCheckResult ==
    /\ results' = ReadinessCheckResult
    /\ UNCHANGED <<now, registry, hzHist, hzRest>>

\* time passes
Sleep ==
    /\ now < MaxTime
    /\ now' = now + 1
    /\ UNCHANGED <<registry, results, hzHist, hzRest>>

HzInit ==
    /\ NewHealthzCheckMap
    /\ NoPolicy
    /\ ExtInit
    /\ NewAsyncWorkers
    /\ NewCPUResourceAdvisor
    /\ EmptyMetaCache(FALSE, FALSE, FALSE)
    /\ NoAssembly

HzNext ==
    \/ RegisterHeartbeatCheck
    \/ RegisterTemporaryHeartbeatCheck
    \/ UnregisterTemporaryHeartbeatCheck
    \/ RegisterReportCheck
    \/ CallUpdateHealthzState
    \/ CallUpdateHealthzStateByError
    \/ GetRegisterReadinessCheckResult
    \/ Sleep

HzSpec == HzInit /\ [][HzNext]_vars

\* C13: in heartbeat mode with timeoutPeriod > 0, a check is reported not ready
\* whenever more than timeoutPeriod has passed since its last update, or since
\* its registration when it was never updated, whatever its state
C13_HeartbeatTimeout ==
    \A name \in DOMAIN registry :
        (/\ registry[name].Mode = "heartbeat"
         /\ registry[name].TimeoutPeriod > 0
         /\ now - hzHist[name].touched > registry[name].TimeoutPeriod)
        => ~ReadinessCheckResult[name].Ready

\* a heartbeat check in state Ready, with no toleration in play, has timed out
\* and a call of GetRegisterReadinessCheckResult has reported it
C13_Witness ==
    \E name \in DOMAIN registry :
        /\ registry[name].Mode = "heartbeat"
        /\ registry[name].TimeoutPeriod > 0
        /\ registry[name].State = "Ready"
        /\ now - hzHist[name].touched > registry[name].TimeoutPeriod
        /\ results = ReadinessCheckResult
        /\ name \in DOMAIN results

\* a heartbeat check with a toleration period whose state left Ready by an
\* update and has not been Ready since
Tolerated(name) ==
    /\ registry[name].Mode = "heartbeat"
    /\ registry[name].TolerationPeriod > 0
    /\ registry[name].State # "Ready"
    /\ hzHist[name].unreadyAt # ZeroTime

\* more than TimeoutPeriod has passed since the registration or last update
Expired(name) ==
    /\ registry[name].TimeoutPeriod > 0
    /\ now - hzHist[name].touched > registry[name].TimeoutPeriod

\* C14: in heartbeat mode with tolerationPeriod > 0, a check whose state is not
\* Ready is reported ready exactly until the state has lasted longer than
\* tolerationPeriod, counted from the update that moved it from Ready to
\* another state and not from later updates
C14_TolerationWindow ==
    \A name \in DOMAIN registry :
        Tolerated(name) =>
            (ReadinessCheckResult[name].Ready
                <=> now - hzHist[name].unreadyAt <= registry[name].TolerationPeriod)

\* C14 (amended): the same for a check that has not timed out; a check that has
\* timed out is reported not ready inside the window too, a heartbeat check
\* that was registered in a state other than Ready and never updated to Ready
\* is reported not ready at once, and a check in state Ready that has not timed
\* out is reported ready
C14_TolerationWindowAmended ==
    \A name \in DOMAIN registry :
        /\ (Tolerated(name) /\ ~Expired(name)) =>
               (ReadinessCheckResult[name].Ready
                   <=> now - hzHist[name].unreadyAt <= registry[name].TolerationPeriod)
        /\ (Tolerated(name) /\ Expired(name)) => ~ReadinessCheckResult[name].Ready
        /\ (/\ registry[name].Mode = "heartbeat"
            /\ registry[name].State # "Ready"
            /\ hzHist[name].unreadyAt = ZeroTime) => ~ReadinessCheckResult[name].Ready
        /\ (/\ registry[name].Mode = "heartbeat"
            /\ registry[name].State = "Ready"
            /\ ~Expired(name)) => ReadinessCheckResult[name].Ready

\* a check left Ready, was updated once more with a state other than Ready,
\* and the window counted from the first of the two updates is over while one
\* counted from the second would not be; the result has been read
C14_Witness ==
    \E name \in DOMAIN registry :
        /\ Tolerated(name)
        /\ ~Expired(name)
        /\ hzHist[name].touched > hzHist[name].unreadyAt
        /\ now - hzHist[name].unreadyAt > registry[name].TolerationPeriod
        /\ now - hzHist[name].touched <= registry[name].TolerationPeriod
        /\ results = ReadinessCheckResult

\* C15: in report mode a check for which a failure was reported is reported
\* ready again once no new failed state has been reported for more than
\* timeoutPeriod
C15_ReportAutoRecovers ==
    \A name \in DOMAIN registry :
        (/\ registry[name].Mode = "report"
         /\ registry[name].TimeoutPeriod > 0
         /\ hzHist[name].failedAt # ZeroTime
         /\ now - hzHist[name].failedAt > registry[name].TimeoutPeriod)
        => ReadinessCheckResult[name].Ready

C17_TemporaryRefCount ==
    /\ [](\A name \in DOMAIN registry :
            registry[name].temporary =>
                /\ hzHist[name].unregs < hzHist[name].regs
                /\ registry[name].count = hzHist[name].regs - hzHist[name].unregs)
    /\ [][\A name \in DOMAIN registry :
            /\ name \notin DOMAIN registry' =>
                   /\ UnregisterTemporaryHeartbeatCheck
                   /\ registry[name].temporary
                   /\ hzHist[name].unregs + 1 = hzHist[name].regs
            /\ (UnregisterTemporaryHeartbeatCheck /\ registry[name].temporary
                    /\ hzHist[name].unregs + 1 = hzHist[name].regs)
                   => name \notin DOMAIN registry'
            /\ (RegisterTemporaryHeartbeatCheck /\ name \in DOMAIN registry') =>
                   [registry'[name] EXCEPT !.count = 0] = [registry[name] EXCEPT !.count = 0]
          ]_vars

\* a temporary check that was updated and then registered again is still in
\* the registry, one call of UnregisterTemporaryHeartbeatCheck short of the
\* number of its registrations
C17_Witness ==
    \E name \in DOMAIN registry :
        /\ registry[name].temporary
        /\ hzHist[name].regs >= 2
        /\ hzHist[name].unregs + 1 = hzHist[name].regs
        /\ hzHist[name].updated
        /\ registry[name].Message # "Init"

\* ---------------------------------------------------------------------------
\* PolicyNUMAAware: Update and GetHeadroom, called in any order
\* ---------------------------------------------------------------------------

memRest == <<asmVars, advVars, aswVars, hzVars, extVars>>

\* Update() with the metrics as they are, one of them failing or none
PolicyUpdate ==
    \E fault \in Faults :
        /\ pna' = Update(pna, memIn, fault)
        /\ memHist' = [memHist EXCEPT !.fault = fault, !.err = updateErr(memIn, fault),
                                      !.before = GetHeadroomOf(pna)]
        /\ UNCHANGED <<memIn, memOut, memRest>>

\* the inactiveFile metric of some NUMAs doubles and Update() runs with
\* every metric at hand
PolicyUpdateDoubled ==
    /\ memHist.doubled = {}
    /\ \E S \in SUBSET NUMANodes \ {{}} :
        /\ memIn' = [memIn EXCEPT !.inactiveFile =
                        [n \in NUMANodes |-> IF n \in S THEN 2 * @[n] ELSE @[n]]]
        /\ pna' = Update(pna, memIn', <<"none", 0>>)
        /\ memHist' = [memHist EXCEPT !.fault = <<"none", 0>>, !.err = "none",
                                      !.doubled = S, !.before = GetHeadroomOf(pna)]
    /\ UNCHANGED <<memOut, memRest>>

PolicyGetHeadroom ==
    /\ memOut' = GetHeadroomOf(pna)
    /\ UNCHANGED <<memIn, pna, memHist, memRest>>

MemInit ==
    /\ memIn \in MemInputs
    /\ NewPolicyNUMAAware
    /\ ExtInit
    /\ NewHealthzCheckMap
    /\ NewAsyncWorkers
    /\ NewCPUResourceAdvisor
    /\ EmptyMetaCache(FALSE, FALSE, FALSE)
    /\ NoAssembly

MemNext == PolicyUpdate \/ PolicyUpdateDoubled \/ PolicyGetHeadroom

MemSpec == MemInit /\ [][MemNext]_vars

\* a metric that Update reads cannot be obtained
MetricFault(fault) ==
    \/ fault[1] = "scale"
    \/ fault[1] \in {"free", "inactiveFile", "total"} /\ fault[2] \in memIn.availNUMAs

\* C18: GetHeadroom returns an error exactly when the most recent Update failed
\* or no Update has run; an Update that cannot obtain a metric fails; a call of
\* GetHeadroom changes nothing, so it keeps failing until an Update succeeds
C18_HeadroomErrorIffUpdateFailed ==
    /\ [](/\ GetHeadroomOf(pna).err # "none" <=> memHist.err # "none"
          /\ MetricFault(memHist.fault) => memHist.err \notin {"none", "never"})
    /\ [][PolicyGetHeadroom =>
            /\ pna' = pna
            /\ memOut'.err # "none" <=> memHist.err # "none"]_vars

\* an Update succeeded, a later one failed for a missing metric, and
\* GetHeadroom, called after it, returned an error
C18_Witness ==
    /\ memHist.before.err = "none"
    /\ memHist.fault[1] = "total"
    /\ memHist.err = "total"
    /\ memOut.err = "last update failed"

\* the denominator that makes every term of the headroom formula whole
HeadroomDenominator == memIn.CacheBasedRatio[2] * 10000 * NumNUMANodes

\* HeadroomDenominator times: the sum over the available NUMAs of
\* free + inactiveFile * CacheBasedRatio, plus the memory requests of the
\* reclaimed-cores containers, minus the sum of total over the available NUMAs
\* times scaleFactor / 10000, minus the number of available NUMAs times
\* reservedForAllocate / NumNUMANodes
ExpectedHeadroom ==
    SumUpMapValues([n \in memIn.availNUMAs |->
        memIn.free[n] * HeadroomDenominator
            + memIn.inactiveFile[n] * memIn.CacheBasedRatio[1] * 10000 * NumNUMANodes])
    + SumUpMapValues([i \in DOMAIN memIn.containers |->
        memIn.containers[i].MemoryRequest * HeadroomDenominator])
    - SumUpMapValues([n \in memIn.availNUMAs |-> memIn.total[n]])
        * memIn.watermarkScaleFactor * memIn.CacheBasedRatio[2] * NumNUMANodes
    - Cardinality(memIn.availNUMAs) * memIn.ReservedForAllocate
        * memIn.CacheBasedRatio[2] * 10000

\* C19: after a successful Update the total memory headroom is the larger of
\* zero and reclaimable memory minus the watermark reserve minus the reserve
\* for allocation; for scenario 5 it is 15.36G, with 7.68G on each NUMA
C19_HeadroomFormula ==
    memHist.err = "none" =>
        /\ pna.memoryHeadroom = Q(Max(0, ExpectedHeadroom), HeadroomDenominator)
        /\ memIn = Scenario5 =>
               /\ pna.memoryHeadroom = QInt(1536)
               /\ GetHeadroomOf(pna).headroom = 1536
               /\ GetHeadroomOf(pna).numaHeadroom = [n \in NUMANodes |-> 768]

\* Update succeeded on the inputs of scenario 5 and GetHeadroom returned 15.36G
C19_Witness ==
    /\ memIn = Scenario5
    /\ memHist.err = "none"
    /\ memOut.err = "none"
    /\ memOut.headroom = 1536

\* C20: with CacheBasedRatio in [0,1] and all other inputs equal, the headroom
\* reported after a successful Update with inactiveFile doubled is not less,
\* in total and on every NUMA, than the headroom reported before
C20_DoublingInactiveFile ==
    (memHist.doubled # {} /\ memHist.err = "none" /\ memHist.before.err = "none") =>
        /\ GetHeadroomOf(pna).headroom >= memHist.before.headroom
        /\ \A n \in NUMANodes :
               GetHeadroomOf(pna).numaHeadroom[n] >= memHist.before.numaHeadroom[n]

\* inactiveFile doubled on one NUMA and the headroom grew on the other NUMA too
C20_Witness ==
    /\ memHist.err = "none"
    /\ memHist.before.err = "none"
    /\ \E n \in NUMANodes :
        /\ memHist.doubled = {n}
        /\ \A m \in NUMANodes :
               GetHeadroomOf(pna).numaHeadroom[m] > memHist.before.numaHeadroom[m]
    /\ GetHeadroomOf(pna).headroom > memHist.before.headroom
    /\ memOut = GetHeadroomOf(pna)

\* the reclaimed-cores containers that are assigned to no NUMA
Unassigned(in) ==
    {i \in DOMAIN in.containers : in.containers[i].TopologyAwareAssignments = {}}

\* the per-NUMA headrooms have an entry for every NUMA and sum up to the
\* total headroom, less than one unit being lost on each NUMA
NumaHeadroomSumsUp ==
    /\ DOMAIN pna.numaMemoryHeadroom = NUMANodes
    /\ \A n \in NUMANodes :
           /\ pna.numaMemoryHeadroom[n] >= 0
           /\ (n \notin memIn.availNUMAs /\ AssignedTo(memIn, n) = {})
              => pna.numaMemoryHeadroom[n] = 0
    /\ ~QLess(pna.memoryHeadroom, QInt(SumUpMapValues(pna.numaMemoryHeadroom)))
    /\ QLess(pna.memoryHeadroom,
             QInt(SumUpMapValues(pna.numaMemoryHeadroom) + NumNUMANodes))

\* C39: after a successful Update every NUMA of the machine has an entry in
\* the per-NUMA headroom map, zero for the NUMAs without data, and the
\* per-NUMA headrooms sum to the total headroom up to the truncation to an
\* integer on each NUMA, whatever the reclaimed-cores containers are, those
\* with empty TopologyAwareAssignments included
C39_NumaHeadroomSumsToTotal ==
    memHist.err = "none" => NumaHeadroomSumsUp

\* the same when every reclaimed-cores container with a memory request is
\* assigned to a NUMA
NumaHeadroomSumsWhenAssigned ==
    (memHist.err = "none" /\ Unassigned(memIn) = {}) => NumaHeadroomSumsUp

\* ---------------------------------------------------------------------------
\* MemoryPluginCheckpoint: marshal, store, unmarshal, verify, marshal again
\* ---------------------------------------------------------------------------

ckRest == <<asmVars, advVars, aswVars, hzVars, memVars, rgVars, moreVars>>

\* cp.MarshalCheckpoint(), the bytes are stored
MarshalCheckpoint ==
    /\ blob = NoBlob
    /\ cp' = withChecksum(cp)
    /\ blob' = jsonMarshal(cp')
    /\ UNCHANGED <<altered, restored, verified, blob2, ckRest>>

\* the stored bytes change: a map field gets another value, or the checksum
\* field another number
AlterBlob ==
    /\ blob # NoBlob
    /\ ~altered
    /\ restored = NoCheckpointObject
    /\ \E i \in DOMAIN blob :
          \/ /\ blob[i][1] \notin {"policyName", "checksum"}
             /\ \E v \in {jsonValue(x) : x \in MapValues} :
                   /\ v # blob[i][2]
                   /\ blob' = [blob EXCEPT ![i] = <<blob[i][1], v>>]
          \/ /\ blob[i][1] = "checksum"
             /\ blob' = [blob EXCEPT ![i] = <<"checksum", <<"altered">> >>]
    /\ altered' = TRUE
    /\ UNCHANGED <<cp, restored, verified, blob2, ckRest>>

\* UnmarshalCheckpoint(blob) on a checkpoint that is the zero value or that
\* NewMemoryPluginCheckpoint made
UnmarshalCheckpoint ==
    /\ blob # NoBlob
    /\ restored = NoCheckpointObject
    /\ \E target \in {ZeroCheckpoint, NewMemoryPluginCheckpoint} :
          restored' = jsonUnmarshal(blob, target)
    /\ UNCHANGED <<cp, blob, altered, verified, blob2, ckRest>>

\* VerifyChecksum() of the restored checkpoint, which it leaves as it was
VerifyChecksum ==
    /\ restored # NoCheckpointObject
    /\ blob2 = NoBlob
    /\ verified' = verifyChecksum(restored)
    /\ UNCHANGED <<cp, blob, altered, restored, blob2, ckRest>>

\* MarshalCheckpoint() of the restored checkpoint
MarshalAgain ==
    /\ restored # NoCheckpointObject
    /\ blob2 = NoBlob
    /\ restored' = withChecksum(restored)
    /\ blob2' = jsonMarshal(restored')
    /\ UNCHANGED <<cp, blob, altered, verified, ckRest>>

CkInit ==
    /\ cp \in {MkCheckpoint(ms, nh, pre, st) :
                  ms \in MapValues, nh \in MapValues, pre \in MapValues, st \in MapValues}
    /\ NoCheckpoint
    /\ NoRegionAssignment
    /\ NoMore
    /\ NoPolicy
    /\ NewHealthzCheckMap
    /\ NewAsyncWorkers
    /\ NewCPUResourceAdvisor
    /\ EmptyMetaCache(FALSE, FALSE, FALSE)
    /\ NoAssembly

CkNext ==
    \/ MarshalCheckpoint
    \/ AlterBlob
    \/ UnmarshalCheckpoint
    \/ VerifyChecksum
    \/ MarshalAgain

CkSpec == CkInit /\ [][CkNext]_vars

\* C21: the checkpoint unmarshalled from the output of MarshalCheckpoint passes
\* VerifyChecksum and marshals to the same bytes again, and a checkpoint
\* unmarshalled from bytes whose content or checksum was altered fails
\* VerifyChecksum
C21_CheckpointRoundTrip ==
    /\ (~altered /\ verified # "not called") => verified = "nil"
    /\ (~altered /\ blob2 # NoBlob) => blob2 = blob
    /\ (altered /\ verified # "not called") => verified = "ErrCorruptCheckpoint"

\* ---------------------------------------------------------------------------
\* AssembleProvision on the end-to-end scenarios: one family of assembler
\* inputs per scenario, sizes in CPUs, requests and knobs in half-CPUs
\* ---------------------------------------------------------------------------

\* an assembler over NUMAs of numaSize CPUs, each holding `reserve` CPUs of
\* the reserve pool
ScenarioAssembler(regions, numaSize, reserve, reclaimReserve, allowOverlap, enableReclaim, cgroup2) ==
    [regionMap          |-> WithBindingNumas(regions),
     reservedForReclaim |-> [n \in Numas |-> reclaimReserve],
     numaAvailable      |-> [n \in Numas |-> numaSize - reserve],
     nonBindingNumas    |-> NonBindingNumasOf(regions),
     allowOverlap       |-> allowOverlap,
     enableReclaim      |-> enableReclaim,
     cgroup2            |-> cgroup2,
     reservePoolSize    |-> reserve * Cardinality(Numas)]

\* a region with the request of its pods and the knobs of its policy
ScenarioRegion(r, request, knob) == [r EXCEPT !.request = request, !.knob = knob]

\* the requests of a share pool of scenarios 1 and 2: 8, 10, 12 and 14 CPUs
ShareNBRequests == {16, 20, 24, 28}

\* scenarios 1 and 2: two NUMA-binding share pools on NUMA 0 of 24 CPUs,
\* reserve 2, reservedForReclaim 4
ShareNBRegions(r1, r2) ==
    [n \in {"share-n0", "batch-n0"} |->
        ScenarioRegion(Region(n, Share, TRUE, {0}, n),
                       IF n = "share-n0" THEN r1 ELSE r2,
                       Knob(IF n = "share-n0" THEN r1 ELSE r2, 0, 0, FALSE, 0))]

ShareNBScenarios ==
    {ScenarioAssembler(ShareNBRegions(r1, r2), 24, 2, 4, ov, er, FALSE) :
        r1 \in ShareNBRequests, r2 \in ShareNBRequests,
        ov \in BOOLEAN, er \in BOOLEAN}

\* scenario 3: a dedicated region alone on NUMA 1 of 32 CPUs, reserve 0; its
\* knob keeps 20, 20.5 or 30 CPUs, with or without a ReclaimedCPUQuota of 8
DedicatedRegions(nonReclaim, hasQuota, regionReclaim) ==
    [n \in {"ded-n1"} |->
        [ScenarioRegion(Region(n, DedicatedNumaExclusive, TRUE, {1}, "dedicated"),
                        nonReclaim, Knob(nonReclaim, 0, 0, hasQuota, 16))
            EXCEPT !.enableReclaim = regionReclaim]]

DedicatedScenarios ==
    {ScenarioAssembler(DedicatedRegions(k, q, rr), 32, 0, rfr, FALSE, er, cg) :
        k \in {40, 41, 60}, q \in BOOLEAN, rr \in BOOLEAN, rfr \in {6, 14},
        er \in BOOLEAN, cg \in BOOLEAN}

\* scenario 4: a non-binding share pool and a non-binding isolation region
\* over two NUMAs; the share pool asks for 8 or 16 CPUs, the isolation
\* region has upper bound 10 and lower bound 4
NonBindingRegions(request, requirement) ==
    [n \in {"share", "iso-a"} |->
        IF n = "share"
        THEN ScenarioRegion(Region(n, Share, FALSE, {}, "share"),
                            request, Knob(requirement, 0, 0, FALSE, 0))
        ELSE ScenarioRegion(Region(n, Isolation, FALSE, {}, "share"),
                            8, Knob(0, 20, 8, FALSE, 0))]

NonBindingScenarios ==
    {ScenarioAssembler(NonBindingRegions(rq, rm), size, 0, rfr, ov, er, FALSE) :
        rq \in {16, 32}, rm \in {16, 32}, size \in {10, 12, 14}, rfr \in {0, 2},
        ov \in BOOLEAN, er \in BOOLEAN}

ScenarioInputs == ShareNBScenarios \cup DedicatedScenarios \cup NonBindingScenarios

ScnInit ==
    /\ NewCPUResourceAdvisor
    /\ EmptyMetaCache(FALSE, FALSE, FALSE)
    /\ NewAsyncWorkers
    /\ NewHealthzCheckMap
    /\ NoPolicy
    /\ ExtInit
    /\ asmIn \in ScenarioInputs
    /\ asmOrder = <<>>
    /\ asmOut = NoResult
    /\ asmDone = FALSE

ScnNext == Assemble

ScnSpec == ScnInit /\ [][ScnNext]_vars

\* the two share pools of a scenario-1/2 input and what they ask for, in CPUs
IsShareNBScenario == DOMAIN asmIn.regionMap = {"share-n0", "batch-n0"}
RequestOf(name) == Max(1, CeilCPU(asmIn.regionMap[name].request))
SizeOf(pool, numaID) ==
    IF <<pool, numaID>> \in DOMAIN asmOut.entries
    THEN asmOut.entries[<<pool, numaID>>].size ELSE 0 - 1
ThrottledOf(name) == name \in DOMAIN asmOut.throttled /\ asmOut.throttled[name]

\* C22: two NUMA-binding share pools on one NUMA whose requests fit the
\* NUMA's budget (reclaim enabled, no overlap) get their requests, the
\* NUMA's reclaim pool gets NUMA size - reserve - (r1 + r2) +
\* reservedForReclaim, and neither region is throttled; for NUMA=24,
\* reserve=2, reservedForReclaim=4 and requests {10, 8} the reclaim pool is 8
C22_TwoShareNBPoolsFit ==
    (/\ asmDone /\ IsShareNBScenario
     /\ asmIn.enableReclaim /\ ~asmIn.allowOverlap
     /\ RequestOf("share-n0") + RequestOf("batch-n0") <= asmIn.numaAvailable[0])
    => /\ ~asmOut.err
       /\ SizeOf("share-n0", 0) = RequestOf("share-n0")
       /\ SizeOf("batch-n0", 0) = RequestOf("batch-n0")
       /\ SizeOf(PoolNameReclaim, 0) =
              asmIn.numaAvailable[0] - (RequestOf("share-n0") + RequestOf("batch-n0"))
                + asmIn.reservedForReclaim[0]
       /\ ~ThrottledOf("share-n0") /\ ~ThrottledOf("batch-n0")
       /\ (RequestOf("share-n0") = 10 /\ RequestOf("batch-n0") = 8)
              => SizeOf(PoolNameReclaim, 0) = 8

\* C23: when the requests of the NUMA-binding share pools of one NUMA
\* together exceed the NUMA's budget (no overlap), the pools are shrunk to
\* fit the budget, the regions are marked throttled and the NUMA's reclaim
\* pool equals reservedForReclaim; for NUMA=24, reserve=2,
\* reservedForReclaim=4 and requests {14, 12} the pools are {12, 10} and the
\* reclaim pool is 4
C23_ShareNBOvercommitThrottles ==
    (/\ asmDone /\ IsShareNBScenario
     /\ asmIn.enableReclaim /\ ~asmIn.allowOverlap
     /\ RequestOf("share-n0") + RequestOf("batch-n0") > asmIn.numaAvailable[0])
    => /\ ~asmOut.err
       /\ SizeOf("share-n0", 0) + SizeOf("batch-n0", 0) <= asmIn.numaAvailable[0]
       /\ ThrottledOf("share-n0") /\ ThrottledOf("batch-n0")
       /\ SizeOf(PoolNameReclaim, 0) = asmIn.reservedForReclaim[0]
       /\ (RequestOf("share-n0") = 14 /\ RequestOf("batch-n0") = 12)
              => /\ SizeOf("share-n0", 0) = 12
                 /\ SizeOf("batch-n0", 0) = 10
                 /\ SizeOf(PoolNameReclaim, 0) = 4

IsDedicatedScenario == DOMAIN asmIn.regionMap = {"ded-n1"}
QuotaOf(pool, numaID) ==
    IF <<pool, numaID>> \in DOMAIN asmOut.entries
    THEN asmOut.entries[<<pool, numaID>>].quota ELSE 0 - 1

\* max(reservedForReclaim, available - nonReclaim) of the dedicated region of
\* a scenario-3 input, in CPUs
DedicatedReclaimable ==
    LET r         == asmIn.regionMap["ded-n1"]
        available == asmIn.numaAvailable[1]
        nonReclaim == IF r.enableReclaim THEN r.knob.nonReclaim \div 2 ELSE available
    IN  Max(asmIn.reservedForReclaim[1], available - nonReclaim)

\* C24: for a DedicatedNumaExclusive region on NUMA n, with nonReclaim its
\* NonReclaimedCPURequirement knob (or available when the region's reclaim
\* is disabled): under cgroup-v2 the reclaim entry of n has size available
\* and quota max(reservedForReclaim, available - nonReclaim), capped by the
\* ReclaimedCPUQuota knob when present; otherwise it has size
\* max(reservedForReclaim, available - nonReclaim) and no quota. NUMA=32,
\* reserve=0, knob=20, reservedForReclaim=6 on v2 gives size 32, quota 12
\* (quotas are held in half-CPUs)
C24_DedicatedReclaimEntry ==
    (asmDone /\ IsDedicatedScenario)
    => LET knob == asmIn.regionMap["ded-n1"].knob
       IN  /\ ~asmOut.err
           /\ asmIn.cgroup2 =>
                 /\ SizeOf(PoolNameReclaim, 1) = asmIn.numaAvailable[1]
                 /\ QuotaOf(PoolNameReclaim, 1) =
                        IF knob.hasQuota
                        THEN Min(2 * DedicatedReclaimable, knob.quota)
                        ELSE 2 * DedicatedReclaimable
           /\ ~asmIn.cgroup2 =>
                 /\ SizeOf(PoolNameReclaim, 1) = DedicatedReclaimable
                 /\ QuotaOf(PoolNameReclaim, 1) = NoQuota
           /\ (/\ asmIn.cgroup2 /\ ~knob.hasQuota /\ knob.nonReclaim = 40
               /\ asmIn.regionMap["ded-n1"].enableReclaim
               /\ asmIn.reservedForReclaim[1] = 6)
              => /\ SizeOf(PoolNameReclaim, 1) = 32
                 /\ QuotaOf(PoolNameReclaim, 1) = 2 * 12

\* scenario 3 has been assembled, and an input whose region has reclaim
\* disabled as well
C24_Witness ==
    /\ asmDone /\ IsDedicatedScenario /\ asmIn.cgroup2
    /\ asmIn.regionMap["ded-n1"].knob.nonReclaim = 40
    /\ ~asmIn.regionMap["ded-n1"].knob.hasQuota
    /\ asmIn.regionMap["ded-n1"].enableReclaim
    /\ asmIn.reservedForReclaim[1] = 6
    /\ SizeOf(PoolNameReclaim, 1) = 32
    /\ QuotaOf(PoolNameReclaim, 1) = 24

IsNonBindingScenario == DOMAIN asmIn.regionMap = {"share", "iso-a"}

\* the budget of the non-binding collective, in CPUs
NonBindingAvailable ==
    getNUMAsResource(asmIn.numaAvailable, asmIn.nonBindingNumas)
      - (IF asmIn.allowOverlap THEN 0
         ELSE getNUMAsResource(asmIn.reservedForReclaim, asmIn.nonBindingNumas))

\* what the share pool of a scenario-4 input is regulated by, in CPUs
NonBindingShareRequirement ==
    IF ~asmIn.enableReclaim \/ asmIn.allowOverlap
    THEN Max(1, (asmIn.regionMap["share"].request + 1) \div 2)
    ELSE Max(1, asmIn.regionMap["share"].knob.nonReclaim \div 2)

\* C25: in the non-binding collective the isolation regions get their upper
\* bounds if the share requirements plus the isolation upper bounds fit the
\* non-binding budget, and their lower bounds otherwise; with share 16,
\* upper 10, lower 4 and available 20 the isolation pool gets 4 and share
\* plus isolation total 20
C25_IsolationUpperOrLower ==
    (asmDone /\ IsNonBindingScenario /\ ~asmOut.err)
    => LET upper == asmIn.regionMap["iso-a"].knob.upper \div 2
           lower == asmIn.regionMap["iso-a"].knob.lower \div 2
       IN  /\ SizeOf("iso-a", FakedNUMAID) =
                  IF NonBindingShareRequirement + upper <= NonBindingAvailable
                  THEN upper ELSE lower
           /\ (/\ NonBindingShareRequirement = 16 /\ upper = 10 /\ lower = 4
               /\ NonBindingAvailable = 20)
              => /\ SizeOf("iso-a", FakedNUMAID) = 4
                 /\ SizeOf("share", FakedNUMAID) + SizeOf("iso-a", FakedNUMAID) = 20

\* scenario 4 has been assembled: 16 + 10 exceed 20, the isolation pool has
\* its lower bound
C25_Witness ==
    /\ asmDone /\ IsNonBindingScenario /\ ~asmOut.err
    /\ NonBindingShareRequirement = 16 /\ NonBindingAvailable = 20
    /\ SizeOf("iso-a", FakedNUMAID) = 4
    /\ SizeOf("share", FakedNUMAID) = 16

\* ---------------------------------------------------------------------------
\* cpuResourceAdvisor: assigning containers to regions, with the names the
\* containers and the pools keep of their regions
\* ---------------------------------------------------------------------------

\* most containers in the meta-cache at one time, the passes of one run, the
\* changes the pod watcher makes in one run and the region names one run may
\* generate
MaxRgPods == 2
MaxRgTicks == 3
MaxRgEvents == 3
MaxRgRegions == 5

\* the generated part of a region name (a UUID): the k-th name generated
GeneratedNames == <<"r1", "r2", "r3", "r4", "r5", "r6", "r7", "r8", "r9", "r10">>
RegionNameOf(k) == GeneratedNames[k]

QoSLevelSystemCores == "system_cores"
PoolNameDedicated == "dedicated"

\* conf.IsolationNonExclusivePools
IsolationNonExclusivePools == {"batch"}

\* the largest CPURequest of a share pod "without requests info"
RequestInfoThreshold == 1000000000

\* types.ContainerInfo: OwnerPoolName, OriginOwnerPoolName,
\* TopologyAwareAssignments (its NUMAs), RampUp, CPURequest, Isolated,
\* RegionNames
RgContainer(qos, ownerPool, numaBinding, taa, rampUp, request) ==
    [qos |-> qos, ownerPool |-> ownerPool, originPool |-> ownerPool,
     numaBinding |-> numaBinding, taa |-> taa, rampUp |-> rampUp,
     request |-> request, isolated |-> FALSE, regionNames |-> {}]

\* the containers the pod watcher may report, each as it may first appear
RgCatalog ==
    [uid \in {"p-ded", "p-share", "p-ramp", "p-snb", "p-forced", "p-sys"} |->
        CASE uid = "p-ded"    -> {RgContainer(QoSLevelDedicatedCores, PoolNameDedicated,
                                              TRUE, taa, FALSE, 8) : taa \in {{1}, {0, 1}}}
          [] uid = "p-share"  -> {RgContainer(QoSLevelSharedCores, "share",
                                              FALSE, {0, 1}, FALSE, 2)}
          [] uid = "p-ramp"   -> {RgContainer(QoSLevelSharedCores, "",
                                              FALSE, {}, TRUE, rq) :
                                     rq \in {2, 2 * RequestInfoThreshold}}
          [] uid = "p-snb"    -> {RgContainer(QoSLevelSharedCores, "share-n0",
                                              TRUE, {0}, TRUE, 2),
                                  RgContainer(QoSLevelSharedCores, "",
                                              TRUE, {0}, FALSE, 2),
                                  RgContainer(QoSLevelSharedCores, "share-n0",
                                              TRUE, {0, 1}, FALSE, 2)}
          [] uid = "p-forced" -> {RgContainer(QoSLevelSharedCores, "batch",
                                              FALSE, {0, 1}, FALSE, 2)}
          [] uid = "p-sys"    -> {RgContainer(QoSLevelSystemCores, "",
                                              FALSE, {}, FALSE, 1)}]

\* the pools of the meta-cache, and the pods the isolator may report
RgPoolNames == {"share", "share-n0", "batch"}
RgIsolatorCandidates == {"p-share"}

\* region constructors: no container yet
NewRegion(name, type, numaID, pool) ==
    [name |-> name, type |-> type,
     numas |-> IF numaID = FakedNUMAID THEN {} ELSE {numaID},
     pool |-> pool, pods |-> {}]

NewQoSRegionShare(st, ci, numaID) ==
    NewRegion(RegionNameOf(st.seq + 1), Share, numaID, ci.originPool)

NewQoSRegionIsolation(st, ci, regionName, numaID) ==
    NewRegion(IF regionName = "" THEN RegionNameOf(st.seq + 1) ELSE regionName,
              Isolation, numaID, ci.originPool)

NewQoSRegionDedicatedNumaExclusive(st, ci, numaID) ==
    NewRegion(RegionNameOf(st.seq + Cardinality({m \in ci.taa : m <= numaID})),
              DedicatedNumaExclusive, numaID, ci.ownerPool)

\* getRegionsByRegionNames: the regions of the names, nil when one is missing
getRegionsByRegionNames(st, names) ==
    IF names \subseteq DOMAIN st.regionMap
    THEN {st.regionMap[n] : n \in names} ELSE {}

\* getPoolRegions: the regions the pool entry of the meta-cache names
getPoolRegions(st, poolName) ==
    IF poolName \notin DOMAIN st.pools THEN {}
    ELSE getRegionsByRegionNames(st, st.pools[poolName])

\* getContainerRegions: the regions of one type among those the container
\* names; an error when a named region is not in the region map
getContainerRegions(st, ci, regionType) ==
    IF ci.regionNames \subseteq DOMAIN st.regionMap
    THEN [err |-> FALSE,
          regions |-> {st.regionMap[n] : n \in
                          {x \in ci.regionNames : st.regionMap[x].type = regionType}}]
    ELSE [err |-> TRUE, regions |-> {}]

\* what assignToRegions returns: the regions (none for nil), the error, and
\* how many region names it generated
Assigned(regions, fresh) == [err |-> FALSE, regions |-> regions, fresh |-> fresh]
AssignNil == [err |-> FALSE, regions |-> {}, fresh |-> 0]
AssignErr == [err |-> TRUE, regions |-> {}, fresh |-> 0]

\* ci.OwnerPoolName == "" && math.Abs(ci.CPURequest) < 1e9
withoutRequestsInfo(ci) ==
    ci.ownerPool = "" /\ Abs(ci.request) < RequestInfoThreshold

invalidTopology_Never(ci) == FALSE

\* len(ci.TopologyAwareAssignments) != 1
invalidTopology(ci) == Cardinality(ci.taa) # 1

\* the isolation region of a container that is isolated or in a pool of
\* IsolationForceEnablePools
assignIsolatedContainer(st, ci, numaID) ==
    LET byPool == getPoolRegions(st, ci.originPool)
        byName == getRegionsByRegionNames(st, {ci.originPool})
        own    == getContainerRegions(st, ci, Isolation)
    IN  IF ci.originPool \in IsolationNonExclusivePools
        THEN IF byPool # {} THEN Assigned(byPool, 0)
             ELSE IF byName # {} THEN Assigned(byName, 0)
             ELSE Assigned({NewQoSRegionIsolation(st, ci, ci.originPool, numaID)}, 0)
        ELSE IF own.err THEN AssignErr
             ELSE IF own.regions # {} THEN Assigned(own.regions, 0)
             ELSE Assigned({NewQoSRegionIsolation(st, ci, "", numaID)}, 1)

\* assignShareContainerToRegions with the regions of the advisor by name
assignShareContainer(cfg, st, ci) ==
    LET binding == cfg.enableShareCoresNumaBinding /\ ci.numaBinding
        numaID  == IF binding /\ Cardinality(ci.taa) = 1
                   THEN CHOOSE n \in ci.taa : TRUE ELSE FakedNUMAID
        regions == getPoolRegions(st, ci.originPool)
    IN  IF binding /\ ci.ownerPool = "" THEN AssignErr
        ELSE IF binding /\ invalidTopology(ci) THEN AssignErr
        ELSE IF ~binding /\ ci.rampUp THEN AssignNil
        ELSE IF ~binding /\ withoutRequestsInfo(ci) THEN AssignNil
        ELSE IF ~binding /\ ~ci.rampUp /\ ci.ownerPool = "" THEN AssignErr
        ELSE IF ci.isolated \/ ci.originPool \in IsolationForceEnablePools
        THEN assignIsolatedContainer(st, ci, numaID)
        ELSE IF regions # {} THEN Assigned(regions, 0)
        ELSE Assigned({NewQoSRegionShare(st, ci, numaID)}, 1)

dedicatedRegionsOf_Created(existing, created) == created

\* the regions of a dedicated container: those it has, or the new ones
dedicatedRegionsOf(existing, created) ==
    IF existing # {} THEN existing ELSE created

\* assignDedicatedContainerToRegions with the regions of the advisor by name
assignDedicatedContainer(st, ci) ==
    LET own     == getContainerRegions(st, ci, DedicatedNumaExclusive)
        created == {NewQoSRegionDedicatedNumaExclusive(st, ci, n) : n \in ci.taa}
        regions == dedicatedRegionsOf(own.regions, created)
    IN  IF own.err THEN AssignErr
        ELSE Assigned(regions, IF regions = own.regions THEN 0 ELSE Cardinality(ci.taa))

\* assignToRegions with the regions of the advisor by name
assignContainer(cfg, st, ci) ==
    IF ci.qos = QoSLevelSharedCores THEN assignShareContainer(cfg, st, ci)
    ELSE IF ci.qos = QoSLevelDedicatedCores THEN assignDedicatedContainer(st, ci)
    ELSE AssignNil

\* the callback f of assignContainersToRegions for one container, a being
\* what assignToRegions returned for it
syncContainer(st, uid, ci, a, names) ==
    LET added    == [n \in names |->
                        [(CHOOSE r \in a.regions : r.name = n) EXCEPT !.pods = @ \cup {uid}]]
        skipPool == \/ ci.ownerPool = PoolNameDedicated
                    \/ ci.isolated
                    \/ ci.originPool \in IsolationForceEnablePools
        poolErr  == ~skipPool /\ ci.originPool \notin DOMAIN st.pools
        ret      == [err |-> a.err, regions |-> names,
                     created |-> names \ DOMAIN st.regionMap]
    IN  IF a.regions = {}
        THEN [st EXCEPT !.err = @ \/ a.err, !.returned = Put(@, uid, ret)]
        ELSE [regionMap  |-> Merge(st.regionMap, added),
              containers |-> [st.containers EXCEPT ![uid].regionNames = names],
              pools      |-> IF skipPool \/ poolErr THEN st.pools
                             ELSE [st.pools EXCEPT ![ci.originPool] = names],
              seq        |-> st.seq + a.fresh,
              err        |-> st.err \/ a.err \/ poolErr,
              returned   |-> Put(st.returned, uid, ret)]

syncOne(cfg, st, uid, a) ==
    syncContainer(st, uid, st.containers[uid], a, {r.name : r \in a.regions})

RECURSIVE RangeAndUpdateContainer(_, _, _)
\* metaCache.RangeAndUpdateContainer(f), in the order the iteration yields
RangeAndUpdateContainer(cfg, st, order) ==
    IF order = <<>> THEN st
    ELSE RangeAndUpdateContainer(cfg,
             syncOne(cfg, st, Head(order), assignContainer(cfg, st, st.containers[Head(order)])),
             Tail(order))

\* assignContainersToRegions: r.Clear() on every region, then the callback
\* over the containers
assignContainers(cfg, rm, cs, pools, seq, order) ==
    RangeAndUpdateContainer(cfg,
        [regionMap |-> [n \in DOMAIN rm |-> [rm[n] EXCEPT !.pods = {}]],
         containers |-> cs, pools |-> pools, seq |-> seq, err |-> FALSE,
         returned |-> << >>],
        order)

gcRegions_Keep(rm) == rm

\* gcRegionMap on regions by name: delete the regions without container
gcRegions(rm) == [n \in {x \in DOMAIN rm : rm[x].pods # {}} |-> rm[n]]

rgRest == <<asmVars, advVars, aswVars, hzVars, memVars, ckVars, moreVars>>

\* the pod watcher adds a container to the meta-cache
RgContainerAdded ==
    /\ rgEvents < MaxRgEvents
    /\ rgEvents' = rgEvents + 1
    /\ Cardinality(DOMAIN rgContainers) < MaxRgPods
    /\ \E uid \in DOMAIN RgCatalog \ DOMAIN rgContainers :
          \E ci \in RgCatalog[uid] : rgContainers' = Put(rgContainers, uid, ci)
    /\ UNCHANGED <<rgConf, rgPools, rgRegionMap, rgSeq, rgTicks, rgLast, rgRest>>

\* the pod watcher removes a container
RgContainerRemoved ==
    /\ rgEvents < MaxRgEvents
    /\ rgEvents' = rgEvents + 1
    /\ \E uid \in DOMAIN rgContainers :
          rgContainers' = [u \in DOMAIN rgContainers \ {uid} |-> rgContainers[u]]
    /\ UNCHANGED <<rgConf, rgPools, rgRegionMap, rgSeq, rgTicks, rgLast, rgRest>>

\* the cpu plugin ends the ramp-up of a container and reports its pool, or
\* leaves the pool name empty
RgRampUpDone ==
    /\ rgEvents < MaxRgEvents
    /\ rgEvents' = rgEvents + 1
    /\ \E uid \in DOMAIN rgContainers :
          /\ rgContainers[uid].rampUp
          /\ \E pool \in IF rgContainers[uid].ownerPool = ""
                         THEN {"share", ""} ELSE {rgContainers[uid].ownerPool} :
                rgContainers' = [rgContainers EXCEPT ![uid].rampUp = FALSE,
                                                     ![uid].ownerPool = pool,
                                                     ![uid].originPool = pool]
    /\ UNCHANGED <<rgConf, rgPools, rgRegionMap, rgSeq, rgTicks, rgLast, rgRest>>

\* one pass of updateWithIsolationGuardian up to gcRegionMap, st being what
\* assignContainersToRegions leaves: gcRegionMap runs when no container failed
RgPassTo(st) ==
    /\ st.seq <= MaxRgRegions
    /\ rgRegionMap' = IF st.err THEN st.regionMap ELSE gcRegions(st.regionMap)
    /\ rgContainers' = st.containers
    /\ rgPools' = st.pools
    /\ rgSeq' = st.seq
    /\ rgLast' = [ran |-> TRUE, err |-> st.err, gc |-> ~st.err,
                  returned |-> st.returned, synced |-> st.regionMap]

\* setIsolatedContainers, assignContainersToRegions and gcRegionMap
RgPass ==
    /\ rgTicks < MaxRgTicks
    /\ rgTicks' = rgTicks + 1
    /\ \E isolatedPods \in SUBSET (RgIsolatorCandidates \cap DOMAIN rgContainers) :
          \E order \in Orders(rgContainers) :
             RgPassTo(assignContainers(rgConf, rgRegionMap,
                         [u \in DOMAIN rgContainers |->
                             [rgContainers[u] EXCEPT !.isolated = u \in isolatedPods]],
                         rgPools, rgSeq, order))
    /\ UNCHANGED <<rgConf, rgEvents, rgRest>>

RgnInit ==
    /\ NewCPUResourceAdvisor
    /\ EmptyMetaCache(FALSE, FALSE, FALSE)
    /\ NewAsyncWorkers
    /\ NewHealthzCheckMap
    /\ NoPolicy
    /\ NoAssembly
    /\ cp = NewMemoryPluginCheckpoint
    /\ NoCheckpoint
    /\ rgConf \in [enableShareCoresNumaBinding : BOOLEAN]
    /\ rgPools = [p \in RgPoolNames |-> {}]
    /\ NoRegions
    /\ NoMore

RgnNext == RgContainerAdded \/ RgContainerRemoved \/ RgRampUpDone \/ RgPass

RgnSpec == RgnInit /\ [][RgnNext]_vars

\* a pass of updateWithIsolationGuardian has just run
PassTaken == rgTicks' = rgTicks + 1

\* the DedicatedNumaExclusive regions of the region map that hold a container
DedicatedRegionsWith(uid) ==
    {n \in DOMAIN rgRegionMap :
        /\ rgRegionMap[n].type = DedicatedNumaExclusive
        /\ uid \in rgRegionMap[n].pods}

\* C26: in every state reached by any sequence of ticks, no container
\* belongs to more than one DedicatedNumaExclusive region
C26_OneDedicatedRegionPerContainer ==
    \A uid \in DOMAIN RgCatalog : Cardinality(DedicatedRegionsWith(uid)) <= 1

\* what assignToRegions returned for a container in the pass just run, and
\* the regions as the pass left them before gcRegionMap
ReturnedFor(uid) == rgLast'.returned[uid]
SyncedRegion(n) == rgLast'.synced[n]

\* the container's regions of one type before the pass
RegionsBefore(uid, type) ==
    {n \in rgContainers[uid].regionNames \cap DOMAIN rgRegionMap :
        rgRegionMap[n].type = type}

\* C27: assignToRegions places a dedicated-cores NUMA-binding container in
\* exactly one DedicatedNumaExclusive region per NUMA of its
\* topologyAwareAssignments, reuses the container's existing regions of that
\* type on later ticks instead of creating new ones, and returns no region
\* for a container whose QoS level is neither shared nor dedicated
C27_DedicatedRegionPerNuma ==
    [][PassTaken =>
        \A uid \in DOMAIN rgContainers :
            /\ (/\ rgContainers[uid].qos = QoSLevelDedicatedCores
                /\ rgContainers[uid].numaBinding)
               => /\ ~ReturnedFor(uid).err
                  /\ \A numa \in rgContainers[uid].taa :
                        Cardinality({n \in ReturnedFor(uid).regions :
                            /\ SyncedRegion(n).type = DedicatedNumaExclusive
                            /\ SyncedRegion(n).numas = {numa}
                            /\ uid \in SyncedRegion(n).pods}) = 1
                  /\ Cardinality(ReturnedFor(uid).regions)
                        = Cardinality(rgContainers[uid].taa)
                  /\ RegionsBefore(uid, DedicatedNumaExclusive) # {}
                        => /\ ReturnedFor(uid).regions
                                 = RegionsBefore(uid, DedicatedNumaExclusive)
                           /\ ReturnedFor(uid).created = {}
            /\ rgContainers[uid].qos \notin {QoSLevelSharedCores, QoSLevelDedicatedCores}
               => /\ ~ReturnedFor(uid).err
                  /\ ReturnedFor(uid).regions = {}
    ]_vars

\* a dedicated container on two NUMAs has been given its two regions again,
\* and a system container none
C27_Witness ==
    /\ rgLast.ran
    /\ {"p-ded", "p-sys"} \subseteq DOMAIN rgLast.returned
    /\ Cardinality(rgLast.returned["p-ded"].regions) = 2
    /\ rgLast.returned["p-ded"].created = {}
    /\ rgLast.returned["p-sys"].regions = {}

\* the Share regions of a pool that hold a container after the pass
ShareRegionsOf(pool) ==
    {n \in DOMAIN rgLast'.synced :
        /\ SyncedRegion(n).type = Share
        /\ SyncedRegion(n).pool = pool
        /\ SyncedRegion(n).pods # {}}

\* C28: a shared-cores container that is neither isolated nor in a
\* force-isolated pool is placed in the single Share region of its
\* originOwnerPoolName (created on first use, reused afterwards); it is
\* skipped without error while it is ramping up, and assigning it returns an
\* error when it is not ramping up and its owner pool name is empty
C28_ShareRegionByPool ==
    [][PassTaken =>
        \A uid \in DOMAIN rgContainers :
            (/\ rgContainers'[uid].qos = QoSLevelSharedCores
             /\ ~rgContainers'[uid].isolated
             /\ rgContainers'[uid].originPool \notin IsolationForceEnablePools)
            => /\ rgContainers'[uid].rampUp
                  => /\ ~ReturnedFor(uid).err
                     /\ ReturnedFor(uid).regions = {}
               /\ (~rgContainers'[uid].rampUp /\ rgContainers'[uid].ownerPool = "")
                  => ReturnedFor(uid).err
               /\ (/\ ~rgContainers'[uid].rampUp
                   /\ rgContainers'[uid].ownerPool # ""
                   /\ ~ReturnedFor(uid).err)
                  => /\ ReturnedFor(uid).regions
                           = ShareRegionsOf(rgContainers'[uid].originPool)
                     /\ Cardinality(ReturnedFor(uid).regions) = 1
                     /\ getPoolRegions([regionMap |-> rgRegionMap, pools |-> rgPools],
                                       rgContainers[uid].originPool) # {}
                           => ReturnedFor(uid).created = {}
    ]_vars

\* C29: with EnableShareCoresNumaBinding set, a NUMA-binding shared-cores
\* container is assigned to a region bound to its NUMA only if its owner
\* pool name is non-empty and its topologyAwareAssignments names exactly one
\* NUMA; otherwise the assignment returns an error and the pass is aborted
\* (no gcRegionMap, the error returned)
C29_ShareNumaBindingChecked ==
    [][(PassTaken /\ rgConf.enableShareCoresNumaBinding) =>
        \A uid \in DOMAIN rgContainers :
            (/\ rgContainers[uid].qos = QoSLevelSharedCores
             /\ rgContainers[uid].numaBinding)
            => IF /\ rgContainers[uid].ownerPool # ""
                  /\ Cardinality(rgContainers[uid].taa) = 1
               THEN /\ ~ReturnedFor(uid).err
                    /\ ReturnedFor(uid).regions # {}
                    /\ \A n \in ReturnedFor(uid).regions :
                          /\ SyncedRegion(n).numas = rgContainers[uid].taa
                          /\ uid \in SyncedRegion(n).pods
               ELSE /\ ReturnedFor(uid).err
                    /\ ReturnedFor(uid).regions = {}
                    /\ rgLast'.err
                    /\ ~rgLast'.gc
    ]_vars

\* a pass has failed on a NUMA-binding shared container with two NUMAs
C29_Witness ==
    /\ rgLast.ran /\ rgLast.err /\ rgConf.enableShareCoresNumaBinding
    /\ "p-snb" \in DOMAIN rgLast.returned
    /\ "p-snb" \in DOMAIN rgContainers
    /\ Cardinality(rgContainers["p-snb"].taa) = 2
    /\ rgLast.returned["p-snb"].err

\* C30: after gcRegionMap in any tick, regionMap contains no empty region: a
\* region that received no container in this tick's re-scan is removed, and
\* every remaining region holds exactly the containers assigned to it in
\* this tick, none left over from earlier ticks
C30_NoEmptyRegionAfterGC ==
    [][(PassTaken /\ rgLast'.gc) =>
        /\ \A n \in DOMAIN rgRegionMap' :
              /\ rgRegionMap'[n].pods # {}
              /\ rgRegionMap'[n].pods
                    = {uid \in DOMAIN rgLast'.returned : n \in ReturnedFor(uid).regions}
        /\ \A n \in DOMAIN rgRegionMap :
              (\A uid \in DOMAIN rgLast'.returned : n \notin ReturnedFor(uid).regions)
                 => n \notin DOMAIN rgRegionMap'
    ]_vars

\* gcRegionMap has removed a region that lost its container, and kept another
C30_Witness ==
    /\ rgLast.ran /\ rgLast.gc
    /\ DOMAIN rgRegionMap # {}
    /\ DOMAIN rgLast.synced # DOMAIN rgRegionMap

\* ---------------------------------------------------------------------------
\* The non-binding collective under both implementations of
\* AssembleProvision: one or two share pools and at most one isolation
\* region over two non-binding NUMAs
\* ---------------------------------------------------------------------------

\* request and NonReclaimedCPURequirement of a share pool, in half-CPUs
OverlapShareValues == {<<2, 2>>, <<6, 2>>, <<6, 6>>}
\* upper and lower bound of the isolation region, in half-CPUs
OverlapIsolationValues == {<<4, 2>>, <<10, 8>>}

OverlapRegions(names, sv, iv) ==
    [n \in names |->
        IF n = "iso-a"
        THEN ScenarioRegion(Region(n, Isolation, FALSE, {}, "share"),
                            iv[2], Knob(0, iv[1], iv[2], FALSE, 0))
        ELSE ScenarioRegion(Region(n, Share, FALSE, {}, n),
                            sv[n][1], Knob(sv[n][2], 0, 0, FALSE, 0))]

OverlapScenarios ==
    {ScenarioAssembler(OverlapRegions(names, sv, iv), size, 0, rfr, ov, er, FALSE) :
        names \in {{"share"}, {"share", "batch"}, {"share", "iso-a"},
                   {"share", "batch", "iso-a"}},
        sv \in [{"share", "batch"} -> OverlapShareValues],
        iv \in OverlapIsolationValues,
        size \in {3, 4, 5}, rfr \in {1, 2},
        ov \in BOOLEAN, er \in BOOLEAN}

OvInit ==
    /\ NewCPUResourceAdvisor
    /\ EmptyMetaCache(FALSE, FALSE, FALSE)
    /\ NewAsyncWorkers
    /\ NewHealthzCheckMap
    /\ NoPolicy
    /\ ExtInit
    /\ asmIn \in OverlapScenarios
    /\ asmOrder = <<>>
    /\ asmOut = NoResult
    /\ asmDone = FALSE

\* one call of AssembleProvision of the second implementation
AssembleSecond ==
    /\ ~secondDone
    /\ \E order \in Orders(asmIn.regionMap) :
          secondOut' = AssembleProvisionSecond(asmIn, order)
    /\ secondDone' = TRUE
    /\ UNCHANGED <<asmVars, advVars, aswVars, hzVars, memVars, ckVars, rgVars, csVars, crVars,
                   tkVars, rpVars>>

OvNext == Assemble \/ AssembleSecond

OvSpec == OvInit /\ [][OvNext]_vars

\* the overlap records between the reclaim pool and the pools at FakedNUMAID
OverlapRecords(out) ==
    {k \in DOMAIN out.overlap : k[1] = PoolNameReclaim /\ k[2] = FakedNUMAID}

OverlapSum(out) == SumUpMapValues([k \in OverlapRecords(out) |-> out.overlap[k]])

\* the overlaps of a result sum to its reclaim pool and every share pool has
\* an overlap between 1 and its size
OverlapSplit(pa, out) ==
    /\ ~out.err
    /\ <<PoolNameReclaim, FakedNUMAID>> \in DOMAIN out.entries
    /\ OverlapSum(out) = out.entries[<<PoolNameReclaim, FakedNUMAID>>].size
    /\ \A n \in NonBindingShareRegions(pa) :
          LET rec == <<PoolNameReclaim, FakedNUMAID, pa.regionMap[n].pool>>
              own == <<pa.regionMap[n].pool, FakedNUMAID>>
          IN  /\ rec \in DOMAIN out.overlap
              /\ own \in DOMAIN out.entries
              /\ 1 <= out.overlap[rec]
              /\ out.overlap[rec] <= out.entries[own].size

OverlapCase == asmIn.allowOverlap /\ NonBindingShareRegions(asmIn) # {}

\* the property of a result of the first and of the second implementation
OverlapSplitFirst == (asmDone /\ OverlapCase) => OverlapSplit(asmIn, asmOut)
OverlapSplitSecond == (secondDone /\ OverlapCase) => OverlapSplit(asmIn, secondOut)

\* C31: for the non-binding collective with overlap enabled and at least one
\* share pool, the overlaps recorded between the reclaim pool and the share
\* pools sum to the reclaim pool size at FakedNUMAID, every share pool's
\* overlap lies between 1 and the pool's size, and the assembly does not fail
\* on a target larger than the share pools' sum
C31_OverlapSumsToReclaim == OverlapSplitFirst /\ OverlapSplitSecond

\* ---------------------------------------------------------------------------
\* Claims about the NUMA-binding regions, checked under AsmSpec
\* ---------------------------------------------------------------------------

\* the NUMA-binding share regions of the input
ShareNBRegionsOf(pa) ==
    {n \in DOMAIN pa.regionMap : pa.regionMap[n].type = Share /\ pa.regionMap[n].numaBinding}

\* the position of a region in the order the regions were assembled in
PositionOf(n) == CHOOSE i \in DOMAIN asmOrder : asmOrder[i] = n

\* the share region assembled last among those of a NUMA
AssembledLast(pa, n) ==
    \A m \in ShareNBRegionsOf(pa) :
        RegionNuma(pa.regionMap[m]) = RegionNuma(pa.regionMap[n])
        => PositionOf(m) <= PositionOf(n)

\* min(ownerPoolSize, max(reservedForReclaim, ownerPoolSize - nonReclaimReq)),
\* the second term 0 when reclaim is disabled
ExpectedOverlapReclaim(pa, out, n) ==
    LET r       == pa.regionMap[n]
        owner   == out.entries[<<r.pool, RegionNuma(r)>>].size
        reserve == pa.reservedForReclaim[RegionNuma(r)]
        spare   == IF pa.enableReclaim THEN owner - (r.knob.nonReclaim \div 2) ELSE 0
        larger  == IF reserve >= spare THEN reserve ELSE spare
    IN  IF larger <= owner THEN larger ELSE owner

IsolationNBRegionsOf(pa) ==
    {n \in DOMAIN pa.regionMap :
        pa.regionMap[n].type = Isolation /\ pa.regionMap[n].numaBinding}

\* the NUMA-binding share and isolation regions on the NUMA of a region
ShareNBOn(pa, n) ==
    {m \in ShareNBRegionsOf(pa) : RegionNuma(pa.regionMap[m]) = RegionNuma(pa.regionMap[n])}
IsolationNBOn(pa, n) ==
    {m \in IsolationNBRegionsOf(pa) :
        RegionNuma(pa.regionMap[m]) = RegionNuma(pa.regionMap[n])}

UpperOf(pa, n) == pa.regionMap[n].knob.upper \div 2
LowerOf(pa, n) == pa.regionMap[n].knob.lower \div 2

\* what the assembly of share region m emits for isolation region n
EmittedByShare(pa, m, n) ==
    LET r        == pa.regionMap[m]
        numaID   == RegionNuma(r)
        request  == Max(1, (r.request + 1) \div 2)
        budget   == pa.numaAvailable[numaID]
                      + (IF pa.allowOverlap THEN pa.reservedForReclaim[numaID] ELSE 0)
        uppers   == SumUpMapValues([x \in IsolationNBOn(pa, n) |-> UpperOf(pa, x)])
    IN  IF request + uppers > budget THEN LowerOf(pa, n) ELSE UpperOf(pa, n)

\* the pool and the reclaim pool that a NUMA without share region gets for
\* its isolation regions
EmittedAsOwnPool(pa, out, n) ==
    LET numaID == RegionNuma(pa.regionMap[n])
        sizes  == SumUpMapValues([x \in IsolationNBOn(pa, n) |-> UpperOf(pa, x)])
    IN  /\ <<n, numaID>> \in DOMAIN out.entries
        /\ out.entries[<<n, numaID>>].size = UpperOf(pa, n)
        /\ <<PoolNameReclaim, numaID>> \in DOMAIN out.entries
        /\ out.entries[<<PoolNameReclaim, numaID>>].size
              = Max(pa.numaAvailable[numaID] - sizes, pa.reservedForReclaim[numaID])

\* the pool of an isolation region is the one a share region of its NUMA
\* emitted
EmittedByShareOnly(pa, out, n) ==
    LET numaID == RegionNuma(pa.regionMap[n])
    IN  /\ <<n, numaID>> \in DOMAIN out.entries
        /\ \E m \in ShareNBOn(pa, n) :
              /\ AssembledLast(pa, m)
              /\ out.entries[<<n, numaID>>].size = EmittedByShare(pa, m, n)

\* C33: a NUMA-binding isolation region whose NUMA also hosts a NUMA-binding
\* share region is emitted only by the assembly of that share region; one
\* whose NUMA hosts no NUMA-binding share region is emitted as its own pool
\* with its upper bound, and the reclaim pool of the NUMA is max(available -
\* sum of the isolation sizes on the NUMA, reservedForReclaim), in whatever
\* order the regions are processed
C33_IsolationNBEmittedOnce ==
    Produced
    => \A n \in IsolationNBRegionsOf(asmIn) :
          IF ShareNBOn(asmIn, n) # {}
          THEN EmittedByShareOnly(asmIn, asmOut, n)
          ELSE EmittedAsOwnPool(asmIn, asmOut, n)

\* the same with the test the code makes: a share region of any kind has the
\* NUMA among its binding NUMAs
IsolationNBByGetRegions ==
    Produced
    => \A n \in IsolationNBRegionsOf(asmIn) :
          IF ShareNBOn(asmIn, n) # {}
          THEN EmittedByShareOnly(asmIn, asmOut, n)
          ELSE IF GetRegions(asmIn, RegionNuma(asmIn.regionMap[n]), Share) # {}
          THEN <<n, RegionNuma(asmIn.regionMap[n])>> \notin DOMAIN asmOut.entries
          ELSE EmittedAsOwnPool(asmIn, asmOut, n)

\* the budget that assembleShareNB hands to regulatePoolSizes for a region
HandedToRegulate(pa, m) == pa.numaAvailable[RegionNuma(pa.regionMap[m])]

\* C34: in the assembly of a NUMA-binding share region the isolation regions
\* of its NUMA keep their upper bounds only if podsRequest plus the sum of
\* the upper bounds fits the budget that is handed to regulatePoolSizes, and
\* get their lower bounds otherwise, with overlap allowed as well as without
C34_IsolationFitsHandedBudget ==
    Produced
    => \A m \in ShareNBRegionsOf(asmIn) : \A n \in IsolationNBOn(asmIn, m) :
          LET r       == asmIn.regionMap[m]
              request == Max(1, (r.request + 1) \div 2)
              uppers  == SumUpMapValues(
                             [x \in IsolationNBOn(asmIn, m) |-> UpperOf(asmIn, x)])
          IN  AssembledLast(asmIn, m)
              => /\ <<n, RegionNuma(r)>> \in DOMAIN asmOut.entries
                 /\ asmOut.entries[<<n, RegionNuma(r)>>].size =
                       IF request + uppers <= HandedToRegulate(asmIn, m)
                       THEN UpperOf(asmIn, n) ELSE LowerOf(asmIn, n)

\* the same without overlap
IsolationFitsWithoutOverlap == asmIn.allowOverlap \/ C34_IsolationFitsHandedBudget

\* ---------------------------------------------------------------------------
\* DynamicPolicy.checkCPUSet: the periodic comparison of the cpusets in the
\* plugin state with the cpusets of the containers' cgroups
\* ---------------------------------------------------------------------------

\* most runs of checkCPUSet in one behaviour
MaxCsRuns == 2

CsPods == {"p1", "p2"}
CsPoolName == "share"
\* the cpusets over two CPUs
CsCPUSets == {{0}, {1}, {0, 1}}

\* an allocation info: QoS level, OriginalAllocationResult, whether it is the
\* main container, its requested cores
CsInfo(qos, original, main, request) ==
    [qos |-> qos, original |-> original, main |-> main, request |-> request, pool |-> FALSE]

CsInfos ==
    {CsInfo(QoSLevelDedicatedCores, c, TRUE, 1) : c \in CsCPUSets}
      \cup {CsInfo(QoSLevelSharedCores, {0, 1}, TRUE, q) : q \in {0, 1}}
      \cup {CsInfo(QoSLevelDedicatedCores, {0}, FALSE, 1)}

\* the entry of a pool: IsPoolEntry()
CsPoolEntry == [qos |-> "", original |-> {0, 1}, main |-> FALSE, request |-> 0, pool |-> TRUE]

\* what the lookups of one container return: GetContainerID fails,
\* GetCPUSetForContainer fails, or both succeed
LookupOK == "ok"
LookupNoID == "GetContainerID failed"
LookupNoCPUSet == "GetCPUSetForContainer failed"
Lookups == {LookupOK, LookupNoID, LookupNoCPUSet}

\* the containers that checkCPUSet looks up
Checked(info) ==
    /\ ~info.pool
    /\ info.main
    /\ ~(info.qos = QoSLevelSharedCores /\ info.request = 0)

\* the body of the loop over the pod entries for one container: err is the
\* one variable that every lookup assigns
checkContainer(acc, podUID, info, lookup, cset) ==
    IF ~Checked(info) THEN acc
    ELSE IF lookup = LookupNoID THEN [acc EXCEPT !.err = TRUE]
    ELSE IF lookup = LookupNoCPUSet THEN [acc EXCEPT !.err = TRUE]
    ELSE [acc EXCEPT
             !.err = FALSE,
             !.actualCPUSets = Put(@, podUID, cset),
             !.invalidCPUSet = @ \/ (info.qos = QoSLevelDedicatedCores /\ cset # info.original)]

RECURSIVE checkContainers(_, _, _, _, _)
checkContainers(acc, entries, order, lookups, actual) ==
    IF order = <<>> THEN acc
    ELSE LET podUID == Head(order)
         IN  checkContainers(
                 checkContainer(acc, podUID, entries[podUID],
                     IF podUID \in DOMAIN lookups THEN lookups[podUID] ELSE LookupOK,
                     IF podUID \in DOMAIN actual THEN actual[podUID] ELSE {}),
                 entries, Tail(order), lookups, actual)

RECURSIVE unionCPUSets(_, _, _, _)
\* the loop over actualCPUSets: the unions of the dedicated and the shared
\* cpusets and whether a dedicated cpuset meets the dedicated ones before it
unionCPUSets(acc, entries, actualCPUSets, order) ==
    IF order = <<>> THEN acc
    ELSE LET podUID == Head(order)
             cset   == actualCPUSets[podUID]
             qos    == entries[podUID].qos
         IN  unionCPUSets(
                 IF qos = QoSLevelDedicatedCores
                 THEN [acc EXCEPT
                          !.cpuSetOverlap = @ \/ (cset \cap acc.unionDedicated # {}),
                          !.unionDedicated = @ \cup cset]
                 ELSE IF qos = QoSLevelSharedCores
                 THEN [acc EXCEPT !.unionShared = @ \cup cset]
                 ELSE acc,
                 entries, actualCPUSets, Tail(order))

\* the state that the deferred function gives the health check
checkCPUSetState(err, invalidCPUSet, cpuSetOverlap) ==
    IF err THEN HealthzCheckStateNotReady
    ELSE IF invalidCPUSet THEN HealthzCheckStateNotReady
    ELSE IF cpuSetOverlap THEN HealthzCheckStateNotReady
    ELSE HealthzCheckStateReady

\* checkCPUSet: order is the order the pod entries are visited in
checkCPUSet(entries, order, lookups, actual) ==
    LET first  == checkContainers(
                      [err |-> FALSE, invalidCPUSet |-> FALSE, actualCPUSets |-> EmptyMap],
                      entries, order, lookups, actual)
        second == unionCPUSets(
                      [cpuSetOverlap |-> FALSE, unionDedicated |-> {}, unionShared |-> {}],
                      entries, first.actualCPUSets,
                      SelectSeq(order, LAMBDA u : u \in DOMAIN first.actualCPUSets))
        regionOverlap == second.unionShared \cap second.unionDedicated # {}
    IN  checkCPUSetState(first.err, first.invalidCPUSet,
                         second.cpuSetOverlap \/ regionOverlap)

csRest == <<asmVars, advVars, aswVars, hzVars, memVars, ckVars, rgVars, secondVars, crVars,
            tkVars, rpVars>>

\* one run of checkCPUSet: the metaserver and the cgroups answer as they do
\* at that time, for the containers that are looked up
ExecCheckCPUSet ==
    /\ csRuns < MaxCsRuns
    /\ \E order \in Orders(csEntries),
          lookups \in [{u \in DOMAIN csEntries : Checked(csEntries[u])} -> Lookups] :
          \E actual \in [{u \in DOMAIN lookups : lookups[u] = LookupOK} -> CsCPUSets] :
          /\ csHealth' = checkCPUSet(csEntries, order, lookups, actual)
          /\ csLast' = [ran |-> TRUE, order |-> order, lookups |-> lookups, actual |-> actual]
    /\ csRuns' = csRuns + 1
    /\ UNCHANGED <<csEntries, csRest>>

CsInit ==
    /\ NewCPUResourceAdvisor
    /\ EmptyMetaCache(FALSE, FALSE, FALSE)
    /\ NewAsyncWorkers
    /\ NewHealthzCheckMap
    /\ NoPolicy
    /\ NoAssembly
    /\ cp = NewMemoryPluginCheckpoint
    /\ NoCheckpoint
    /\ NoRegionAssignment
    /\ NoSecondAssembly
    /\ NoResidualState
    /\ NoTickHistory
    /\ NoCacheReaper
    /\ \E withPool \in BOOLEAN :
          csEntries \in {[u \in CsPods \cup (IF withPool THEN {CsPoolName} ELSE {}) |->
                             IF u = CsPoolName THEN CsPoolEntry ELSE f[u]] :
                         f \in [CsPods -> CsInfos]}
    /\ csHealth = HealthzCheckStateNotReady
    /\ csLast = [ran |-> FALSE, order |-> <<>>, lookups |-> << >>, actual |-> << >>]
    /\ csRuns = 0

CsNext == ExecCheckCPUSet

CsSpec == CsInit /\ [][CsNext]_vars

\* the containers the last run had a cpuset for, by QoS level
CheckedPods == {u \in DOMAIN csEntries : Checked(csEntries[u])}
LookedUp == {u \in CheckedPods : csLast.lookups[u] = LookupOK}
DedicatedLookedUp == {u \in LookedUp : csEntries[u].qos = QoSLevelDedicatedCores}
SharedLookedUp == {u \in LookedUp : csEntries[u].qos = QoSLevelSharedCores}

\* what the claim asks of a run for the check to be Ready
CPUSetsSound ==
    /\ \A u \in CheckedPods : csLast.lookups[u] = LookupOK
    /\ \A u \in DedicatedLookedUp : csLast.actual[u] = csEntries[u].original
    /\ \A u, v \in DedicatedLookedUp : u # v => csLast.actual[u] \cap csLast.actual[v] = {}
    /\ UNION {csLast.actual[u] : u \in SharedLookedUp}
          \cap UNION {csLast.actual[u] : u \in DedicatedLookedUp} = {}

\* C35: after a run of checkCPUSet the CheckCPUSet health state is Ready only
\* if no container-id or cpuset lookup of the run failed, every dedicated
\* container's actual cpuset equals its original allocation, no two dedicated
\* cpusets intersect and the shared cpusets do not meet the dedicated ones;
\* otherwise it is NotReady, in whatever order the containers are visited
C35_ReadyOnlyIfSound ==
    csLast.ran => (csHealth = HealthzCheckStateReady <=> CPUSetsSound)

\* the same when every lookup of the run succeeded
ReadyIffSoundWithoutFailure ==
    (csLast.ran /\ \A u \in CheckedPods : csLast.lookups[u] = LookupOK)
    => (csHealth = HealthzCheckStateReady <=> CPUSetsSound)

\* ---------------------------------------------------------------------------
\* DynamicPolicy.clearResidualState: the periodic removal of pods that the
\* state still holds and the pod watcher no longer lists
\* ---------------------------------------------------------------------------

\* crAbsent[u] is the number of the latest runs with a pod list, one after
\* the other, whose list did not hold pod u.
\* the period of the state checks and the time a pod may be residual, in the
\* same unit
stateCheckPeriod == 1
maxResidualTime == 2
\* most runs of clearResidualState in one behaviour
MaxCrRuns == 4

CrPods == {"p1", "p2"}
CrPoolName == "share"

\* the pods with state that the pod watcher does not list
residualSetOf(entries, podSet) ==
    {u \in DOMAIN entries : ~entries[u].pool /\ u \notin podSet}

\* p.residualHitMap[podUID] += 1 for the residual pods
hitResiduals(hitMap, residualSet) ==
    [u \in DOMAIN hitMap \cup residualSet |->
        (IF u \in DOMAIN hitMap THEN hitMap[u] ELSE 0)
          + (IF u \in residualSet THEN 1 ELSE 0)]

dropFound_Keep(hitMap, residualSet) == hitMap

\* delete(p.residualHitMap, podUID) for the pods that are not residual
dropFound(hitMap, residualSet) == [u \in DOMAIN hitMap \cap residualSet |-> hitMap[u]]

\* the pods whose hit count has reached maxResidualTime
podsToDeleteOf(hitMap) ==
    {u \in DOMAIN hitMap : hitMap[u] * stateCheckPeriod >= maxResidualTime}

removedFromState_All(podsToDelete, enableCPUAdvisor, removeFails) == podsToDelete

\* the pods deleted from podEntries: those the sys advisor removed, all of
\* them when the advisor is not enabled
removedFromState(podsToDelete, enableCPUAdvisor, removeFails) ==
    IF enableCPUAdvisor THEN podsToDelete \ removeFails ELSE podsToDelete

crRest == <<asmVars, advVars, aswVars, hzVars, memVars, ckVars, rgVars, secondVars, csVars,
            tkVars, rpVars>>

\* the pod watcher lists a pod, or no longer does
PodWatcherAdd ==
    \E u \in CrPods \ crWatcher :
        /\ crWatcher' = crWatcher \cup {u}
        /\ UNCHANGED <<crConf, crEntries, residualHitMap, crAbsent, crHealth, crLast,
                       crRuns, crRest>>

PodWatcherRemove ==
    \E u \in crWatcher :
        /\ crWatcher' = crWatcher \ {u}
        /\ UNCHANGED <<crConf, crEntries, residualHitMap, crAbsent, crHealth, crLast,
                       crRuns, crRest>>

\* the allocation of a pod adds its entries to the state
AllocatePod ==
    \E u \in CrPods \ DOMAIN crEntries :
        /\ crEntries' = [v \in DOMAIN crEntries \cup {u} |-> [pool |-> v = CrPoolName]]
        /\ UNCHANGED <<crConf, residualHitMap, crWatcher, crAbsent, crHealth, crLast,
                       crRuns, crRest>>

\* a run in which GetPodList fails
ClearResidualStateNoList ==
    /\ crRuns < MaxCrRuns
    /\ crRuns' = crRuns + 1
    /\ crHealth' = HealthzCheckStateNotReady
    /\ crLast' = [ran |-> TRUE, listErr |-> TRUE, podSet |-> {}, candidates |-> {},
                  failed |-> {}, stored |-> FALSE]
    /\ UNCHANGED <<crConf, crEntries, residualHitMap, crWatcher, crAbsent, crRest>>

\* a run that has the pod list: removeFails are the pods whose RemovePod the
\* sys advisor answers with an error, fault the step after the deletions
\* that fails
ClearResidualStateListed ==
    /\ crRuns < MaxCrRuns
    /\ crRuns' = crRuns + 1
    /\ LET residualSet == residualSetOf(crEntries, crWatcher)
           hitMap      == dropFound(hitResiduals(residualHitMap, residualSet), residualSet)
           podsToDelete == podsToDeleteOf(hitMap)
       IN  /\ residualHitMap' = hitMap
           /\ crAbsent' = [u \in DOMAIN crAbsent |->
                              IF u \in crWatcher THEN 0 ELSE crAbsent[u] + 1]
           /\ \E removeFails \in SUBSET podsToDelete,
                 fault \in {"none", "generateMachineStateFromPodEntries",
                            "adjustAllocationEntries"} :
                 LET removed == removedFromState(podsToDelete, crConf.enableCPUAdvisor,
                                                 removeFails)
                     stored  == podsToDelete # {}
                                  /\ fault # "generateMachineStateFromPodEntries"
                 IN  /\ (podsToDelete = {}) => (fault = "none")
                     /\ (~crConf.enableCPUAdvisor) => (removeFails = {})
                     /\ crEntries' = IF stored
                                     THEN [u \in DOMAIN crEntries \ removed |-> crEntries[u]]
                                     ELSE crEntries
                     /\ crHealth' = IF fault = "none" THEN HealthzCheckStateReady
                                    ELSE HealthzCheckStateNotReady
                     /\ crLast' = [ran |-> TRUE, listErr |-> FALSE, podSet |-> crWatcher,
                                   candidates |-> podsToDelete, failed |-> removeFails,
                                   stored |-> stored]
    /\ UNCHANGED <<crConf, crWatcher, crRest>>

CrInit ==
    /\ NewCPUResourceAdvisor
    /\ EmptyMetaCache(FALSE, FALSE, FALSE)
    /\ NewAsyncWorkers
    /\ NewHealthzCheckMap
    /\ NoPolicy
    /\ NoAssembly
    /\ cp = NewMemoryPluginCheckpoint
    /\ NoCheckpoint
    /\ NoRegionAssignment
    /\ NoSecondAssembly
    /\ NoCPUSetCheck
    /\ NoTickHistory
    /\ NoCacheReaper
    /\ crConf \in [enableCPUAdvisor : BOOLEAN]
    /\ crEntries = [u \in CrPods \cup {CrPoolName} |-> [pool |-> u = CrPoolName]]
    /\ residualHitMap = << >>
    /\ crWatcher \in SUBSET CrPods
    /\ crAbsent = [u \in CrPods |-> 0]
    /\ crHealth = HealthzCheckStateNotReady
    /\ crLast = NoRun
    /\ crRuns = 0

CrNext ==
    \/ PodWatcherAdd
    \/ PodWatcherRemove
    \/ AllocatePod
    \/ ClearResidualStateNoList
    \/ ClearResidualStateListed

CrSpec == CrInit /\ [][CrNext]_vars

\* a step that is a run of clearResidualState, with or without the pod list
ResidualRun == crRuns' = crRuns + 1
ListedRun == ResidualRun /\ ~crLast'.listErr

\* C36: clearResidualState deletes a pod's entries from the state only after
\* the pod was missing from the pod list in consecutive runs whose count
\* times stateCheckPeriod reaches maxResidualTime; a run that finds the pod
\* in the pod list drops its hit count, and the count of a pod that is then
\* missed again starts from zero
C36_DeletedAfterResidualTime ==
    [][ResidualRun =>
        \A u \in CrPods :
           /\ (u \in DOMAIN crEntries /\ u \notin DOMAIN crEntries')
              => /\ ~crLast'.listErr
                 /\ crAbsent'[u] * stateCheckPeriod >= maxResidualTime
           /\ (ListedRun /\ u \in DOMAIN crEntries /\ u \in crWatcher)
              => u \notin DOMAIN residualHitMap'
           /\ (ListedRun /\ u \in DOMAIN crEntries /\ u \notin crWatcher)
              => /\ u \in DOMAIN residualHitMap'
                 /\ residualHitMap'[u] >= 1
                 /\ residualHitMap'[u] <= crAbsent'[u]]_vars

\* a pod was deleted from the state in the last run after it had been found
\* by an earlier run and then missed long enough
C36_Witness ==
    /\ crLast.ran /\ ~crLast.listErr /\ crLast.stored
    /\ \E u \in crLast.candidates :
          /\ u \notin DOMAIN crEntries
          /\ crAbsent[u] * stateCheckPeriod >= maxResidualTime
          /\ crRuns > crAbsent[u]

\* C37: when the removal of a residual pod from the sys advisor fails the
\* pod's entries stay in the state and the pod is a candidate again in every
\* later run that lists the pods without it, until a removal succeeds; pool
\* entries are never counted and never deleted; a run that fails to list the
\* pods changes neither the state nor the hit counts
C37_FailedRemovalKeepsPod ==
    [][ResidualRun =>
        /\ \A u \in CrPods :
              /\ (ListedRun /\ crConf.enableCPUAdvisor /\ u \in crLast'.failed)
                 => /\ u \in DOMAIN crEntries'
                    /\ u \in crLast'.candidates
                    /\ residualHitMap'[u] * stateCheckPeriod >= maxResidualTime
              /\ (/\ ListedRun /\ u \in DOMAIN crEntries /\ u \notin crWatcher
                  /\ u \in DOMAIN residualHitMap
                  /\ residualHitMap[u] * stateCheckPeriod >= maxResidualTime)
                 => u \in crLast'.candidates
        /\ CrPoolName \in DOMAIN crEntries'
        /\ CrPoolName \notin DOMAIN residualHitMap'
        /\ CrPoolName \notin crLast'.candidates
        /\ crLast'.listErr
           => (crEntries' = crEntries /\ residualHitMap' = residualHitMap)]_vars

\* the removal of a candidate failed in the last run and the pod is still in
\* the state, after an earlier run whose removal failed as well
C37_Witness ==
    /\ crLast.ran /\ ~crLast.listErr /\ crConf.enableCPUAdvisor
    /\ \E u \in crLast.failed :
          /\ u \in DOMAIN crEntries
          /\ residualHitMap[u] * stateCheckPeriod > maxResidualTime

\* ---------------------------------------------------------------------------
\* cacheReaper: Reconcile builds the set of containers whose cache is to be
\* dropped, GetAdvices reports it
\* ---------------------------------------------------------------------------

\* most Reconcile calls in one behaviour
MaxReconciles == 2
\* the NUMA whose condition a status carries
ReaperNUMA == 0
\* the numaID selectContainers is given for the node condition
NodeWide == 0 - 1
\* GetContainerMetric returned an error
NoMetric == 0 - 1

\* the reclaimed-cores main containers there may be; two pods of different
\* namespaces have the same name
ReaperContainers ==
    <<[PodUID |-> "u1", PodNamespace |-> "a", PodName |-> "web-0", ContainerName |-> "main"],
      [PodUID |-> "u2", PodNamespace |-> "b", PodName |-> "web-0", ContainerName |-> "main"],
      [PodUID |-> "u3", PodNamespace |-> "a", PodName |-> "job-1", ContainerName |-> "main"]>>

\* GetContainerMetric: container -> the metric of the node and of the NUMA
ContainerMetrics ==
    <<[node |-> 3, numa |-> NoMetric],
      [node |-> 2, numa |-> 1],
      [node |-> NoMetric, numa |-> 2]>>

GetContainerMetric(i, numaID) ==
    IF numaID = NodeWide THEN ContainerMetrics[i].node ELSE ContainerMetrics[i].numa

ReaperTargets == {NoTarget, 1, 3}
Conditions ==
    [State : {MemoryPressureNoRisk, MemoryPressureDropCache}, TargetReclaimed : ReaperTargets]

\* the sorter of selectContainers: the greater metric first, the containers
\* without metric last
SortsBefore(i, j, numaID) ==
    \/ GetContainerMetric(i, numaID) > GetContainerMetric(j, numaID)
    \/ GetContainerMetric(i, numaID) = GetContainerMetric(j, numaID) /\ i <= j

RECURSIVE SortedContainers(_, _)
SortedContainers(S, numaID) ==
    IF S = {} THEN << >>
    ELSE LET first == CHOOSE i \in S : \A j \in S : SortsBefore(i, j, numaID)
         IN  <<first>> \o SortedContainers(S \ {first}, numaID)

RECURSIVE selectFrom(_, _, _, _, _)
\* the loop of selectContainers from position k on, sum being the metrics of
\* the containers selected before
selectFrom(sorted, k, sum, cacheToReap, numaID) ==
    IF k > Len(sorted) THEN << >>
    ELSE LET metric == GetContainerMetric(sorted[k], numaID)
         IN  IF metric = NoMetric
             THEN selectFrom(sorted, k + 1, sum, cacheToReap, numaID)
             ELSE IF sum + metric > cacheToReap
             THEN <<sorted[k]>>
             ELSE <<sorted[k]>> \o selectFrom(sorted, k + 1, sum + metric, cacheToReap,
                                              numaID)

\* cacheReaper.selectContainers
selectContainers(present, cacheToReap, numaID) ==
    selectFrom(SortedContainers(present, numaID), 1, 0, cacheToReap, numaID)

\* native.GeneratePodContainerName(ci.PodName, ci.ContainerName)
GeneratePodContainerName(podName, containerName) == <<podName, containerName>>

KeyOf(i) ==
    GeneratePodContainerName(ReaperContainers[i].PodName, ReaperContainers[i].ContainerName)

RECURSIVE putSelected(_, _)
\* containersToReapCache[key] = ci for the selected containers in their order
putSelected(m, selected) ==
    IF selected = << >> THEN m
    ELSE LET i == Head(selected)
         IN  putSelected([k \in DOMAIN m \cup {KeyOf(i)} |->
                             IF k = KeyOf(i) THEN i ELSE m[k]],
                         Tail(selected))

\* the condition asks to drop cache and names a target
asksDropCache(condition) ==
    condition.State = MemoryPressureDropCache /\ condition.TargetReclaimed # NoTarget

\* what selectContainers returns for a condition, nothing when it is not called
selectedFor(present, condition, numaID) ==
    IF asksDropCache(condition)
    THEN selectContainers(present, condition.TargetReclaimed, numaID)
    ELSE << >>

\* the local map of Reconcile after its two loops
reapMapOf(present, status) ==
    putSelected(putSelected(<< >>, selectedFor(present, status.node, NodeWide)),
                selectedFor(present, status.numa, ReaperNUMA))

SeqRange(q) == {q[k] : k \in DOMAIN q}

\* the entries GetAdvices builds from a map
advicesOf(m) ==
    {[PodUID |-> ReaperContainers[m[k]].PodUID,
      ContainerName |-> ReaperContainers[m[k]].ContainerName] : k \in DOMAIN m}

rpRest == <<asmVars, advVars, aswVars, hzVars, memVars, ckVars, rgVars, secondVars, csVars,
            crVars, tkVars>>

\* Reconcile: the containers are read and the local map is built, without
\* the lock
ReconcileSelect ==
    /\ rpPc = "idle"
    /\ rpReconciles < MaxReconciles
    /\ rpReconciles' = rpReconciles + 1
    /\ \E node \in Conditions, numa \in Conditions :
          LET status == [node |-> node, numa |-> numa]
          IN  rpCall' = [status |-> status,
                         selected |-> SeqRange(selectedFor(rpContainers, node, NodeWide))
                                        \cup SeqRange(selectedFor(rpContainers, numa,
                                                                  ReaperNUMA)),
                         local |-> reapMapOf(rpContainers, status)]
    /\ rpPc' = "select"
    /\ UNCHANGED <<rpContainers, containersToReapCache, rpMutex, rpPrev, rpReaderPc,
                   rpAdvices, rpRest>>

\* Reconcile: cp.mutex.Lock()
ReconcileLock ==
    /\ rpPc = "select"
    /\ ~rpMutex.writer /\ rpMutex.readers = 0
    /\ rpMutex' = [rpMutex EXCEPT !.writer = TRUE]
    /\ rpPc' = "locked"
    /\ UNCHANGED <<rpContainers, containersToReapCache, rpCall, rpPrev, rpReaderPc,
                   rpAdvices, rpReconciles, rpRest>>

\* Reconcile: the local map replaces cp.containersToReapCache, and the
\* deferred Unlock
ReconcileStore ==
    /\ rpPc = "locked"
    /\ rpPrev' = containersToReapCache
    /\ containersToReapCache' = rpCall.local
    /\ rpMutex' = [rpMutex EXCEPT !.writer = FALSE]
    /\ rpPc' = "idle"
    /\ UNCHANGED <<rpContainers, rpCall, rpReaderPc, rpAdvices, rpReconciles, rpRest>>

\* GetAdvices: cp.mutex.RLock()
GetAdvicesRLock ==
    /\ rpReaderPc = "idle"
    /\ ~rpMutex.writer
    /\ rpMutex' = [rpMutex EXCEPT !.readers = @ + 1]
    /\ rpReaderPc' = "locked"
    /\ UNCHANGED <<rpContainers, containersToReapCache, rpPc, rpCall, rpPrev, rpAdvices,
                   rpReconciles, rpRest>>

\* GetAdvices: one entry for every container of the map, and the deferred
\* RUnlock
GetAdvicesReturn ==
    /\ rpReaderPc = "locked"
    /\ rpAdvices' = advicesOf(containersToReapCache)
    /\ rpMutex' = [rpMutex EXCEPT !.readers = @ - 1]
    /\ rpReaderPc' = "idle"
    /\ UNCHANGED <<rpContainers, containersToReapCache, rpPc, rpCall, rpPrev, rpReconciles,
                   rpRest>>

RpInit ==
    /\ NewCPUResourceAdvisor
    /\ EmptyMetaCache(FALSE, FALSE, FALSE)
    /\ NewAsyncWorkers
    /\ NewHealthzCheckMap
    /\ NoPolicy
    /\ NoAssembly
    /\ cp = NewMemoryPluginCheckpoint
    /\ NoCheckpoint
    /\ NoRegionAssignment
    /\ NoSecondAssembly
    /\ NoCPUSetCheck
    /\ NoResidualState
    /\ NoTickHistory
    /\ rpContainers \in SUBSET DOMAIN ReaperContainers
    /\ NewCacheReaper

RpNext ==
    \/ ReconcileSelect
    \/ ReconcileLock
    \/ ReconcileStore
    \/ GetAdvicesRLock
    \/ GetAdvicesReturn

RpSpec == RpInit /\ [][RpNext]_vars

\* the entries of the containers a Reconcile call selected
selectedAdvices(call) ==
    {[PodUID |-> ReaperContainers[i].PodUID,
      ContainerName |-> ReaperContainers[i].ContainerName] : i \in call.selected}

\* a Reconcile call has returned and no other is running
Reconciled == rpReconciles >= 1 /\ rpPc = "idle"

\* C40: after each Reconcile the advised set is exactly the containers
\* selected in that call for the node condition and the NUMA conditions that
\* are in DropCache state with a target, the advice of earlier calls being
\* discarded and the set being empty when no condition asks to drop cache;
\* a GetAdvices call that runs while Reconcile does returns the whole set of
\* before the call or the whole set of the call
C40_AdvisedIsSelected ==
    /\ [](Reconciled => advicesOf(containersToReapCache) = selectedAdvices(rpCall))
    /\ [][GetAdvicesReturn =>
            rpAdvices' \in {advicesOf(rpPrev), advicesOf(containersToReapCache),
                            advicesOf(rpCall.local)}]_vars

\* no two of the containers have the same pod name and container name
DistinctNames(S) == \A i, j \in S : KeyOf(i) = KeyOf(j) => i = j

\* the same for containers with distinct pod names
AdvisedIsSelectedByName ==
    (Reconciled /\ DistinctNames(rpContainers)) =>
        advicesOf(containersToReapCache) = selectedAdvices(rpCall)

\* the map of a call replaces the map of the call before, and is empty when
\* no condition asks to drop cache
AdvisedIsLocalMap ==
    Reconciled =>
        /\ containersToReapCache = rpCall.local
        /\ (~asksDropCache(rpCall.status.node) /\ ~asksDropCache(rpCall.status.numa))
              => containersToReapCache = << >>

\* GetAdvices reads the map while no Reconcile holds the lock: it returns the
\* advice of the map before the running call's store or after it
GetAdvicesOldOrNew ==
    [][GetAdvicesReturn =>
          /\ ~rpMutex.writer
          /\ rpAdvices' = advicesOf(containersToReapCache)
          /\ (rpPc = "select" => containersToReapCache # rpCall.local
                                   \/ rpAdvices' = advicesOf(rpCall.local))
          /\ rpAdvices' \in {advicesOf(rpPrev), advicesOf(containersToReapCache)}]_vars

=============================================================================
